---- MODULE Spec2Model ----
(***************************************************************************)
(* Model of the symbolic code editor (src/src/serena/code_editor.py) and   *)
(* of the text-position utilities it rests on (src/src/solidlsp/           *)
(* ls_utils.py, class TextUtils).                                          *)
(*                                                                         *)
(* A text is a sequence of characters; a character is one of the strings   *)
(* "a" (any ordinary character), SP (a blank), LF ("\n") and CR ("\r").    *)
(*                                                                         *)
(* Four specifications share the variables:                                *)
(*   Spec        one edit call of the CodeEditor, step by step;            *)
(*   SpecText    the pure functions of TextUtils applied to bounded        *)
(*               inputs;                                                   *)
(*   SpecRename  one rename_symbol call of the LanguageServerCodeEditor;   *)
(*   SpecTools   one call of FindSymbolTool or FindReferencingSymbolsTool  *)
(*               (src/src/serena/tools/symbol_tools.py).                   *)
(***************************************************************************)
EXTENDS Integers, Sequences, FiniteSets, TLC

\* ------------------------------------------------------------- bounds
\* longest file content of the editor specification
MaxFileLen == 3
\* longest body argument of an edit call
MaxBodyLen == 3
\* longest text / inserted string / largest line and column of SpecText
MaxTextLen == 3
MaxInsLen == 2
MaxLine == 3
MaxCol == 3
\* number of files of the project / most entries of a workspace edit (SpecRename)
NumFiles == 3
MaxEntries == 3
\* longest include_kinds / exclude_kinds argument (SpecTools)
MaxKinds == 2
MaxBytes == 2
MaxMembers == 2
MaxServerMessages == 2
MaxDeps == 2
MaxOverrides == 1
MaxRuntimes == 2

\* ------------------------------------------------------------- characters
LF == "LF"
CR == "CR"
SP == "SP"

\* characters of file contents, of body arguments, of TextUtils inputs
FileChars == {"a", LF}
BodyChars == {"a", SP, LF, CR}
TextChars == {"a", LF, CR}

\* str.strip() / str.rstrip() without argument strip whitespace
Whitespace == {SP, LF, CR}
\* the argument "\r\n" of lstrip / rstrip
LineBreaks == {CR, LF}

TextsOver(chars, n) == UNION {[1..k -> chars] : k \in 0..n}

Min(a, b) == IF a < b THEN a ELSE b
Max(a, b) == IF a > b THEN a ELSE b

\* ------------------------------------------------------------- Python str
\* text[a:b] for 0 <= a, 0 <= b (Python clamps both ends to len(text))
Slice(text, a, b) ==
    LET lo == Min(a, Len(text))
        hi == Min(b, Len(text))
    IN IF lo >= hi THEN <<>> ELSE SubSeq(text, lo + 1, hi)

\* text[:n] and text[n:]
Prefix(text, n) == Slice(text, 0, n)
Suffix(text, n) == Slice(text, n, Len(text))

\* text.count(ch)
Count(text, ch) == Cardinality({i \in 1..Len(text) : text[i] = ch})

\* ch * n
Repeat(ch, n) == [i \in 1..n |-> ch]

\* text.lstrip(chars)
RECURSIVE lstrip(_, _)
lstrip(text, chars) ==
    IF text # <<>> /\ Head(text) \in chars THEN lstrip(Tail(text), chars) ELSE text

\* text.rstrip(chars)
RECURSIVE rstrip(_, _)
rstrip(text, chars) ==
    IF text # <<>> /\ text[Len(text)] \in chars
    THEN rstrip(SubSeq(text, 1, Len(text) - 1), chars)
    ELSE text

\* variant of strip: only the trailing whitespace is removed
strip_mut_right_only(text) == rstrip(text, Whitespace)

\* text.strip()
strip(text) == lstrip(rstrip(text, Whitespace), Whitespace)

\* reversed(text)
reversed(text) == [i \in 1..Len(text) |-> text[Len(text) + 1 - i]]

\* text.endswith("\n")
endswith_newline(text) == text # <<>> /\ text[Len(text)] = LF

\* len(text.split("\n")[-1])
LastSegmentLen(text) ==
    LET nl == {i \in 1..Len(text) : text[i] = LF}
    IN IF nl = {} THEN Len(text)
       ELSE Len(text) - (CHOOSE i \in nl : \A j \in nl : j <= i)

\* ------------------------------------------------------------- TextUtils
\* results of functions that may raise: err is "" on a normal return
Ok(v) == [err |-> "", val |-> v]
Raise(e) == [err |-> e, val |-> <<>>]

\* the `while idx < index` loop of get_line_col_from_index, from (l, c, idx)
RECURSIVE LineColLoop(_, _, _, _, _)
LineColLoop(text, index, l, c, idx) ==
    IF idx >= index THEN Ok(<<l, c>>)
    ELSE IF idx >= Len(text) THEN Raise("IndexError")
    ELSE IF text[idx + 1] = LF
         THEN LineColLoop(text, index, l + 1, 0, idx + 1)
         ELSE LineColLoop(text, index, l, c + 1, idx + 1)

\* variant of get_line_col_from_index: carriage returns of the current line are
\* not counted as columns
get_line_col_from_index_mut_skips_cr(text, index) ==
    LET r == LineColLoop(text, index, 0, 0, 0)
    IN IF r.err # "" THEN r
       ELSE Ok(<<r.val[1], r.val[2] - Count(Slice(text, index - r.val[2], index), CR)>>)

get_line_col_from_index(text, index) == LineColLoop(text, index, 0, 0, 0)

\* the `while line > 0` loop of get_index_from_line_col, from (line, idx)
RECURSIVE IndexLoop(_, _, _)
IndexLoop(text, line, idx) ==
    IF line <= 0 THEN Ok(idx)
    ELSE IF idx >= Len(text) THEN Raise("InvalidTextLocationError")
    ELSE IndexLoop(text, IF text[idx + 1] = LF THEN line - 1 ELSE line, idx + 1)

\* variant of get_index_from_line_col: the column is not added
get_index_from_line_col_mut_no_col(text, line, col) == IndexLoop(text, line, 0)

\* variant of get_index_from_line_col: a column past the end of the text is rejected
get_index_from_line_col_mut_checks_col(text, line, col) ==
    LET r == IndexLoop(text, line, 0)
    IN IF r.err # "" THEN r
       ELSE IF r.val + col > Len(text) THEN Raise("InvalidTextLocationError")
       ELSE Ok(r.val + col)

get_index_from_line_col(text, line, col) ==
    LET r == IndexLoop(text, line, 0)
    IN IF r.err # "" THEN r ELSE Ok(r.val + col)

\* variant of the updated position: the column is not reset after a newline
_get_updated_position_mut_keep_col(l, c, text_to_be_inserted) ==
    LET n == Count(text_to_be_inserted, LF)
    IN IF n > 0 THEN <<l + n, c + LastSegmentLen(text_to_be_inserted)>>
       ELSE <<l, c + Len(text_to_be_inserted)>>

_get_updated_position_from_line_and_column_and_edit(l, c, text_to_be_inserted) ==
    LET num_newlines_in_gen_text == Count(text_to_be_inserted, LF)
    IN IF num_newlines_in_gen_text > 0
       THEN <<l + num_newlines_in_gen_text, LastSegmentLen(text_to_be_inserted)>>
       ELSE <<l, c + Len(text_to_be_inserted)>>

\* returns (new_text, deleted_text)
delete_text_between_positions(text, start_line, start_col, end_line, end_col) ==
    LET del_start_idx == get_index_from_line_col(text, start_line, start_col)
        del_end_idx == get_index_from_line_col(text, end_line, end_col)
    IN IF del_start_idx.err # "" THEN del_start_idx
       ELSE IF del_end_idx.err # "" THEN del_end_idx
       ELSE Ok([new_text |-> Prefix(text, del_start_idx.val) \o Suffix(text, del_end_idx.val),
                deleted_text |-> Slice(text, del_start_idx.val, del_end_idx.val)])

\* variant of insert_text_at_position: no special case for the line past the end
insert_text_at_position_mut_no_append(text, line, col, text_to_be_inserted) ==
    LET r == get_index_from_line_col(text, line, col)
        new_pos == _get_updated_position_from_line_and_column_and_edit(line, col, text_to_be_inserted)
    IN IF r.err # "" THEN r
       ELSE Ok([new_text |-> Prefix(text, r.val) \o text_to_be_inserted \o Suffix(text, r.val),
                new_l |-> new_pos[1], new_c |-> new_pos[2]])

\* returns (new_text, new_l, new_c)
insert_text_at_position(text, line, col, text_to_be_inserted) ==
    LET r == get_index_from_line_col(text, line, col)
        num_lines_in_text == Count(text, LF) + 1
        max_line == num_lines_in_text - 1
        append == r.err # "" /\ line = max_line + 1 /\ col = 0
        change_index == IF append THEN Len(text) ELSE r.val
        ins == IF append THEN <<LF>> \o text_to_be_inserted ELSE text_to_be_inserted
        new_pos == _get_updated_position_from_line_and_column_and_edit(line, col, ins)
    IN IF r.err # "" /\ ~append THEN r
       ELSE Ok([new_text |-> Prefix(text, change_index) \o ins \o Suffix(text, change_index),
                new_l |-> new_pos[1], new_c |-> new_pos[2]])

\* ------------------------------------------------------------- state
VARIABLES
    \* --- Spec: one edit call of the CodeEditor
    disk,         \* content of the file on disk
    orig,         \* content of the file when the call started
    pc,           \* position of the call in the handler's code
    op,           \* the edit operation called
    body0,        \* the body / content argument as the caller passed it
    body,         \* the handler's local variable `body`
    start_line,   \* argument line / start_line of insert_at_line, delete_lines
    end_line,     \* argument end_line of delete_lines
    symbol,       \* the symbol returned by _find_unique_symbol
    start_pos,    \* local start_pos, or the insertion position (line, col)
    end_pos,      \* local end_pos
    edited_file,  \* the buffer yielded by _open_file_context
    dropped,      \* content of a buffer that was released without being saved
    steps,        \* the steps of the call performed so far, in order
    writes,       \* number of times the call wrote the file
    error,        \* the exception the call raised, "" if none
    matches,      \* number of symbols the backend reported for the name path
    \* --- SpecText: TextUtils applied to bounded inputs
    t_pc, t_text, t_line, t_col, t_ins, t_index, t_res, t_del,
    t_end,        \* end position passed to delete_text_between_positions
    \* --- SpecRename: one rename_symbol call of the LanguageServerCodeEditor
    r_pc,         \* position of the call in the handler's code
    r_file,       \* argument relative_file_path
    r_symbol,     \* the symbol returned by _find_unique_symbol
    r_disk,       \* content of every file of the project on disk
    r_open,       \* files open in the language server's session
    r_result,     \* local rename_result
    r_todo,       \* entries of uri_to_edits.items() not yet iterated
    r_buffer,     \* the buffer yielded by _edited_file_context
    r_modified,   \* local modified_relative_paths
    r_log,        \* what the call did to the session and the disk, in order
    r_msg,        \* the status message returned, <<>> if none
    r_error,      \* the exception the call raised, "" if none
    \* --- SpecTools: one call of a symbol query tool
    k_pc,         \* position of the call in the tool's code
    k_tool,       \* the tool called
    k_include,    \* argument include_kinds
    k_exclude,    \* argument exclude_kinds
    k_parsed_include,  \* local parsed_include_kinds
    k_parsed_exclude,  \* local parsed_exclude_kinds
    k_queries,    \* the symbol queries that reached the backend, in order
    k_error,      \* the exception the call raised, "" if none
    \* --- SpecEncoding: one edit call of a JetBrainsCodeEditor, byte by byte
    e_pc,         \* position in the construction of the editor and in the call
    e_agent,      \* the agent argument of the constructor
    e_config,     \* project.project_config.encoding
    e_encoding,   \* self.encoding
    e_bytes,      \* the bytes of the file on disk
    e_content,    \* EditedFile._content
    e_io,         \* the encodings the call read and wrote the file with
    \* --- SpecDownload: one call of FileUtils.download_and_extract_archive
    d_pc,         \* position of the call in the function's code
    d_type,       \* argument archive_type
    d_expected,   \* argument and local variable expected_sha256
    d_checksum,   \* argument checksum_url, and what the URL serves
    d_file,       \* the content the download URL serves
    d_members,    \* the member names of the archive, in the archive's order
    d_next,       \* number of members the zip loop has gone through
    d_tmp,        \* the temporary files that exist
    d_tmp_files,  \* local variable tmp_files
    d_target,     \* whether target_path is a directory, and the paths the call wrote
    d_log,        \* the steps of the call so far, in order
    d_error,      \* the exception the call failed with, "" if none
    \* --- SpecDart: one call of DartLanguageServer._start_server
    s_pc,         \* position of the call in the function's code
    s_handlers,   \* the methods self.server has a handler for
    s_process,    \* state of the backend process
    s_log,        \* what the client did with the server, in order
    s_received,   \* the messages the backend sent, and whether a handler took them
    \* --- SpecDeps: one construction of a RuntimeDependencyCollection
    p_pc,         \* position in __init__
    p_deps,       \* argument dependencies
    p_overrides,  \* argument overrides
    p_next,       \* number of entries the running loop has gone through
    p_map,        \* self._id_and_platform_id_to_dep
    p_error,      \* the exception __init__ raised, "" if none
    \* --- SpecDotnet: one call of PlatformUtils.get_dotnet_version
    n_pc,         \* position of the call in the function's code
    n_dotnet,     \* whether the dotnet command exists and runs
    n_mono,       \* whether the mono command exists and runs
    n_lines,      \* the lines `dotnet --list-runtimes` prints
    n_available,  \* local variable available_version_cmd_output
    n_result,     \* the DotnetVersion returned, "" if none
    n_error       \* the exception the call raised, "" if none

editorVars == <<disk, orig, pc, op, body0, body, start_line, end_line, symbol,
                start_pos, end_pos, edited_file, dropped, steps, writes, error, matches>>
textVars == <<t_pc, t_text, t_line, t_col, t_ins, t_index, t_res, t_del, t_end>>
renameVars == <<r_pc, r_file, r_symbol, r_disk, r_open, r_result, r_todo, r_buffer,
                r_modified, r_log, r_msg, r_error>>
toolVars == <<k_pc, k_tool, k_include, k_exclude, k_parsed_include, k_parsed_exclude,
              k_queries, k_error>>
oldVars == <<editorVars, textVars, renameVars, toolVars>>
encVars == <<e_pc, e_agent, e_config, e_encoding, e_bytes, e_content, e_io>>
dlVars == <<d_pc, d_type, d_expected, d_checksum, d_file, d_members, d_next, d_tmp,
           d_tmp_files, d_target, d_log, d_error>>
dartVars == <<s_pc, s_handlers, s_process, s_log, s_received>>
depVars == <<p_pc, p_deps, p_overrides, p_next, p_map, p_error>>
netVars == <<n_pc, n_dotnet, n_mono, n_lines, n_available, n_result, n_error>>
restVars == <<encVars, dlVars, dartVars, depVars, netVars>>
notEncVars == <<oldVars, dlVars, dartVars, depVars, netVars>>
notDlVars == <<oldVars, encVars, dartVars, depVars, netVars>>
notDartVars == <<oldVars, encVars, dlVars, depVars, netVars>>
notDepVars == <<oldVars, encVars, dlVars, dartVars, netVars>>
notNetVars == <<oldVars, encVars, dlVars, dartVars, depVars>>
otherVars == <<textVars, renameVars, toolVars, restVars>>
vars == <<editorVars, textVars, renameVars, toolVars, restVars>>

NoPos == <<0, 0>>
NoSymbol == [has_body |-> FALSE, start |-> NoPos, end |-> NoPos, separated |-> FALSE]
NoBuffer == [open |-> FALSE, contents |-> <<>>]
NoResult == Raise("none")

EditorIdle ==
    /\ orig = disk
    /\ pc = "idle"
    /\ op = "none"
    /\ body0 = <<>>
    /\ body = <<>>
    /\ start_line = 0
    /\ end_line = 0
    /\ symbol = NoSymbol
    /\ start_pos = NoPos
    /\ end_pos = NoPos
    /\ edited_file = NoBuffer
    /\ dropped = <<>>
    /\ steps = <<>>
    /\ writes = 0
    /\ error = ""
    /\ matches = 0

TextIdle ==
    /\ t_pc = "off"
    /\ t_text = <<>>
    /\ t_line = 0
    /\ t_col = 0
    /\ t_ins = <<>>
    /\ t_index = NoResult
    /\ t_res = NoResult
    /\ t_del = NoResult
    /\ t_end = NoPos

\* the relative paths of the project's files
Files == <<"a.py", "b.py", "c.py", "d.py">>
FileNames == {Files[i] : i \in 1..NumFiles}

NoRenameSymbol == [resolved |-> FALSE, has_position |-> FALSE]
NoResponse == [received |-> FALSE, none |-> TRUE, changes |-> <<>>]
NoFileBuffer == [open |-> FALSE, file |-> "", contents |-> <<>>]

RenameIdle ==
    /\ r_pc = "off"
    /\ r_file = ""
    /\ r_symbol = NoRenameSymbol
    /\ r_disk = [f \in FileNames |-> <<>>]
    /\ r_open = {}
    /\ r_result = NoResponse
    /\ r_todo = <<>>
    /\ r_buffer = NoFileBuffer
    /\ r_modified = <<>>
    /\ r_log = <<>>
    /\ r_msg = <<>>
    /\ r_error = ""

NoKinds == [none |-> TRUE, kinds |-> <<>>]

ToolIdle ==
    /\ k_pc = "off"
    /\ k_tool = "none"
    /\ k_include = <<>>
    /\ k_exclude = <<>>
    /\ k_parsed_include = NoKinds
    /\ k_parsed_exclude = NoKinds
    /\ k_queries = <<>>
    /\ k_error = ""

\* the four specifications above are not running
OldIdle ==
    /\ disk = <<>>
    /\ EditorIdle
    /\ TextIdle
    /\ RenameIdle
    /\ ToolIdle

NoIo == [read |-> "", write |-> ""]

EncodingIdle ==
    /\ e_pc = "off"
    /\ e_agent = "none"
    /\ e_config = ""
    /\ e_encoding = ""
    /\ e_bytes = <<>>
    /\ e_content = <<>>
    /\ e_io = NoIo

NoHash == [form |-> "None", algo |-> "", of |-> ""]

NoChecksum == [given |-> FALSE, err |-> FALSE, hash |-> NoHash]

NoTarget == [dir |-> FALSE, paths |-> {}]

DownloadIdle ==
    /\ d_pc = "off"
    /\ d_type = ""
    /\ d_expected = NoHash
    /\ d_checksum = NoChecksum
    /\ d_file = ""
    /\ d_members = <<>>
    /\ d_next = 0
    /\ d_tmp = {}
    /\ d_tmp_files = <<>>
    /\ d_target = NoTarget
    /\ d_log = <<>>
    /\ d_error = ""

DartIdle ==
    /\ s_pc = "off"
    /\ s_handlers = {}
    /\ s_process = "not_started"
    /\ s_log = <<>>
    /\ s_received = <<>>

DepsIdle ==
    /\ p_pc = "off"
    /\ p_deps = <<>>
    /\ p_overrides = <<>>
    /\ p_next = 0
    /\ p_map = <<>>
    /\ p_error = ""

DotnetIdle ==
    /\ n_pc = "off"
    /\ n_dotnet = FALSE
    /\ n_mono = FALSE
    /\ n_lines = <<>>
    /\ n_available = <<>>
    /\ n_result = ""
    /\ n_error = ""

\* the specifications of the other components are not running
RestIdle == EncodingIdle /\ DownloadIdle /\ DartIdle /\ DepsIdle /\ DotnetIdle

\* ------------------------------------------------------------- SpecText
\* The inputs of the TextUtils functions: a text, a position, a string.
TextInit ==
    /\ disk = <<>>
    /\ EditorIdle
    /\ t_pc = "start"
    /\ t_text \in TextsOver(TextChars, MaxTextLen)
    /\ t_line \in 0..MaxLine
    /\ t_col \in 0..MaxCol
    /\ t_ins \in TextsOver(TextChars, MaxInsLen)
    /\ t_index = NoResult
    /\ t_res = NoResult
    /\ t_del = NoResult
    /\ t_end = NoPos
    /\ RenameIdle
    /\ ToolIdle
    /\ RestIdle

\* idx = get_index_from_line_col(text, line, col)
TextGetIndex ==
    /\ t_pc = "start"
    /\ t_index' = get_index_from_line_col(t_text, t_line, t_col)
    /\ t_pc' = "index"
    /\ UNCHANGED <<t_text, t_line, t_col, t_ins, t_end, t_res, t_del, editorVars, renameVars, toolVars, restVars>>

\* get_line_col_from_index(text, idx) on the index just computed
TextGetLineCol ==
    /\ t_pc = "index"
    /\ t_index.err = ""
    /\ t_res' = get_line_col_from_index(t_text, t_index.val)
    /\ t_pc' = "linecol"
    /\ UNCHANGED <<t_text, t_line, t_col, t_ins, t_end, t_index, t_del, editorVars, renameVars, toolVars, restVars>>

\* new_text, new_l, new_c = insert_text_at_position(text, line, col, ins)
TextInsert ==
    /\ t_pc = "start"
    /\ t_res' = insert_text_at_position(t_text, t_line, t_col, t_ins)
    /\ t_pc' = "inserted"
    /\ UNCHANGED <<t_text, t_line, t_col, t_ins, t_end, t_index, t_del, editorVars, renameVars, toolVars, restVars>>

\* delete_text_between_positions(new_text, line, col, new_l, new_c)
TextDeleteInserted ==
    /\ t_pc = "inserted"
    /\ t_res.err = ""
    /\ t_del' = delete_text_between_positions(t_res.val.new_text, t_line, t_col,
                                              t_res.val.new_l, t_res.val.new_c)
    /\ t_pc' = "deleted"
    /\ UNCHANGED <<t_text, t_line, t_col, t_ins, t_end, t_index, t_res, editorVars, renameVars, toolVars, restVars>>

\* delete_text_between_positions(text, line, col, end_line, end_col) for any end
\* position (the inserted string is no argument of this call)
TextDeleteBetween ==
    /\ t_pc = "start"
    /\ t_ins = <<>>
    /\ \E l \in 0..MaxLine : \E c \in 0..MaxCol :
          /\ t_end' = <<l, c>>
          /\ t_del' = delete_text_between_positions(t_text, t_line, t_col, l, c)
    /\ t_pc' = "deleted_between"
    /\ UNCHANGED <<t_text, t_line, t_col, t_ins, t_index, t_res, editorVars, renameVars, toolVars, restVars>>

TextNext ==
    \/ TextGetIndex
    \/ TextGetLineCol
    \/ TextInsert
    \/ TextDeleteInserted
    \/ TextDeleteBetween

SpecText == TextInit /\ [][TextNext]_vars

\* ------------------------------------------------------------- symbols
\* The symbols a backend can report for a file: a body range [s, e) that starts
\* and ends with a character of the declaration, given as (line, col) positions,
\* with or without the empty-line separation policy; and a symbol without body
\* positions.
SymbolsOf(text) ==
    {[has_body |-> TRUE,
      start |-> get_line_col_from_index(text, r[1]).val,
      end |-> get_line_col_from_index(text, r[2]).val,
      separated |-> sep] :
        r \in {x \in (0..Len(text)) \X (0..Len(text)) :
                  x[1] < x[2] /\ text[x[1] + 1] # LF /\ text[x[2]] # LF},
        sep \in BOOLEAN}
    \cup {NoSymbol}

\* ------------------------------------------------------------- CodeEditor
SymbolOps == {"replace_body", "insert_after_symbol", "insert_before_symbol", "delete_symbol"}
BodyOps == {"replace_body", "insert_after_symbol", "insert_before_symbol", "insert_at_line"}
LineOps == {"insert_at_line", "delete_lines"}

\* _count_leading_newlines(text)
RECURSIVE _count_leading_newlines(_)
_count_leading_newlines(text) ==
    IF text = <<>> THEN 0
    ELSE IF Head(text) = LF THEN 1 + _count_leading_newlines(Tail(text))
    ELSE IF Head(text) = CR THEN _count_leading_newlines(Tail(text))
    ELSE 0

\* _count_trailing_newlines(text)
_count_trailing_newlines(text) == _count_leading_newlines(reversed(text))

\* One step of the running call was performed.
Step(name) == steps' = Append(steps, name)

\* variant of ExitOnError: the save sits in a `finally` and runs on errors too
ExitOnError_saves(e) ==
    /\ pc' = "raised"
    /\ error' = e
    /\ dropped' = edited_file.contents
    /\ edited_file' = NoBuffer
    /\ disk' = edited_file.contents
    /\ writes' = writes + 1
    /\ UNCHANGED <<orig, op, body0, start_line, end_line, symbol, start_pos, end_pos, steps>>

\* An exception leaves the `with self._edited_file_context(...)` block: it is
\* thrown into the generator at its `yield`, the save below the yield is skipped
\* and the enclosing _open_file_context releases the buffer.
ExitOnError(e) ==
    /\ pc' = "raised"
    /\ error' = e
    /\ dropped' = edited_file.contents
    /\ edited_file' = NoBuffer
    /\ UNCHANGED <<disk, writes, orig, op, body0, start_line, end_line, symbol,
                   start_pos, end_pos, steps>>

\* variant of RaiseBeforeOpen: the exception is raised inside the `with` block,
\* after the buffer was opened
RaiseBeforeOpen_mut_after_open(e) ==
    /\ pc' = "raised"
    /\ error' = e
    /\ steps' = Append(steps, "open")
    /\ dropped' = disk
    /\ UNCHANGED <<disk, writes, orig, op, body0, body, start_line, end_line, symbol,
                   start_pos, end_pos, edited_file>>

\* An exception is raised before the `with` block is entered.
RaiseBeforeOpen(e) ==
    /\ pc' = "raised"
    /\ error' = e
    /\ UNCHANGED <<disk, writes, orig, op, body0, body, start_line, end_line, symbol,
                   start_pos, end_pos, edited_file, dropped, steps>>

\* The caller invokes one edit operation with its arguments.
Call ==
    /\ pc = "idle"
    /\ \E o \in SymbolOps \cup LineOps :
       \E b \in IF o \in BodyOps THEN TextsOver(BodyChars, MaxBodyLen) ELSE {<<>>} :
       \E l1 \in IF o \in LineOps THEN 0..MaxLine ELSE {0} :
       \E l2 \in IF o = "delete_lines" THEN 0..MaxLine ELSE {0} :
          /\ op' = o
          /\ body0' = b
          /\ body' = b
          /\ start_line' = l1
          /\ end_line' = l2
          /\ pc' = IF o \in SymbolOps THEN "find" ELSE "open"
    /\ UNCHANGED <<disk, orig, symbol, start_pos, end_pos, edited_file, dropped,
                   steps, writes, error, matches, otherVars>>

\* variant of FindUniqueSymbol: of several matches the first one is taken
FindUniqueSymbol_mut_picks_first ==
    /\ pc = "find"
    /\ \E n \in 0..2 : \E s \in SymbolsOf(disk) :
        /\ matches' = n
        /\ IF n = 0 THEN RaiseBeforeOpen("NotFound")
           ELSE /\ symbol' = s
                /\ pc' = "prepare"
                /\ Step("resolve")
                /\ UNCHANGED <<disk, orig, op, body0, body, start_line, end_line,
                               start_pos, end_pos, edited_file, dropped, writes, error>>
    /\ UNCHANGED otherVars

\* symbol = self._find_unique_symbol(name_path, relative_file_path): the backend
\* reports n matches, the first of which is s.
FindUniqueSymbol ==
    /\ pc = "find"
    /\ \E n \in 0..2 : \E s \in SymbolsOf(disk) :
        /\ matches' = n
        /\ IF n = 0 THEN RaiseBeforeOpen("NotFound")
           ELSE IF n > 1 THEN RaiseBeforeOpen("AmbiguousSymbol")
           ELSE /\ symbol' = s
                /\ pc' = "prepare"
                /\ Step("resolve")
                /\ UNCHANGED <<disk, orig, op, body0, body, start_line, end_line,
                               start_pos, end_pos, edited_file, dropped, writes, error>>
    /\ UNCHANGED otherVars

\* replace_body / delete_symbol: start_pos = symbol.get_body_start_position_or_raise();
\* end_pos = symbol.get_body_end_position_or_raise()
BodyPositions ==
    /\ pc = "prepare"
    /\ op \in {"replace_body", "delete_symbol"}
    /\ IF ~symbol.has_body THEN RaiseBeforeOpen("InvalidTarget")
       ELSE /\ start_pos' = symbol.start
            /\ end_pos' = symbol.end
            /\ pc' = "open"
            /\ Step("compute")
            /\ UNCHANGED <<disk, orig, op, body0, body, start_line, end_line, symbol,
                           edited_file, dropped, writes, error>>
    /\ UNCHANGED <<matches, otherVars>>

\* variant of insert_after_body: the policy minimum is ignored
insert_after_body_mut_no_policy(b, separated) ==
    LET body1 == IF endswith_newline(b) THEN b ELSE b \o <<LF>>
        n == _count_leading_newlines(body1)
    IN rstrip(Repeat(LF, n) \o lstrip(body1, LineBreaks), LineBreaks) \o <<LF>>

\* the text insert_after_symbol passes to insert_text_at_position
insert_after_body(b, separated) ==
    LET body1 == IF endswith_newline(b) THEN b ELSE b \o <<LF>>
        original_leading_newlines == _count_leading_newlines(body1)
        body2 == lstrip(body1, LineBreaks)
        min_empty_lines == IF separated THEN 1 ELSE 0
        num_leading_empty_lines == Max(min_empty_lines, original_leading_newlines)
        body3 == Repeat(LF, num_leading_empty_lines) \o body2
    IN rstrip(body3, LineBreaks) \o <<LF>>

\* insert_after_symbol, from the end-of-line check to the `with`
InsertAfterSymbolPrepare ==
    /\ pc = "prepare"
    /\ op = "insert_after_symbol"
    /\ IF ~symbol.has_body THEN RaiseBeforeOpen("InvalidTarget")
       ELSE /\ start_pos' = <<symbol.end[1] + 1, 0>>
            /\ body' = insert_after_body(body, symbol.separated)
            /\ pc' = "open"
            /\ Step("compute")
            /\ UNCHANGED <<disk, orig, op, body0, start_line, end_line, symbol,
                           end_pos, edited_file, dropped, writes, error>>
    /\ UNCHANGED <<matches, otherVars>>

\* variant of insert_before_body: the newline that ends the body is counted as
\* a blank line
insert_before_body_mut_count(b, separated) ==
    LET t == _count_trailing_newlines(b)
        m == IF separated THEN 1 ELSE 0
    IN (rstrip(b, Whitespace) \o <<LF>>) \o Repeat(LF, Max(m, t))

\* the text insert_before_symbol passes to insert_text_at_position
insert_before_body(b, separated) ==
    LET original_trailing_empty_lines == _count_trailing_newlines(b) - 1
        body1 == rstrip(b, Whitespace) \o <<LF>>
        min_trailing_empty_lines == IF separated THEN 1 ELSE 0
        num_trailing_newlines == Max(min_trailing_empty_lines, original_trailing_empty_lines)
    IN body1 \o Repeat(LF, num_trailing_newlines)

\* insert_before_symbol, up to the `with`
InsertBeforeSymbolPrepare ==
    /\ pc = "prepare"
    /\ op = "insert_before_symbol"
    /\ IF ~symbol.has_body THEN RaiseBeforeOpen("InvalidTarget")
       ELSE /\ start_pos' = <<symbol.start[1], 0>>
            /\ body' = insert_before_body(body, symbol.separated)
            /\ pc' = "open"
            /\ Step("compute")
            /\ UNCHANGED <<disk, orig, op, body0, start_line, end_line, symbol,
                           end_pos, edited_file, dropped, writes, error>>
    /\ UNCHANGED <<matches, otherVars>>

\* `with self._edited_file_context(relative_path) as edited_file:` the buffer is
\* opened with the content of the file
EnterEditedFileContext ==
    /\ pc = "open"
    /\ edited_file' = [open |-> TRUE, contents |-> disk]
    /\ pc' = "edit"
    /\ Step("open")
    /\ UNCHANGED <<disk, orig, op, body0, body, start_line, end_line, symbol,
                   start_pos, end_pos, dropped, writes, error, matches, otherVars>>

\* edited_file.delete_text_between_positions(start, end), then continue at `next`
BufferDelete(start, end, next) ==
    LET r == delete_text_between_positions(edited_file.contents,
                                           start[1], start[2], end[1], end[2])
    IN IF r.err # "" THEN ExitOnError(r.err) /\ UNCHANGED body
       ELSE /\ edited_file' = [edited_file EXCEPT !.contents = r.val.new_text]
            /\ pc' = next
            /\ Step("mutate")
            /\ UNCHANGED <<disk, orig, op, body0, body, start_line, end_line, symbol,
                           start_pos, end_pos, dropped, writes, error>>

\* variant of BufferInsert: the buffer's insert has no append case for the line
\* past the end
BufferInsert_mut_no_append(pos, text, next) ==
    LET r == insert_text_at_position_mut_no_append(edited_file.contents, pos[1], pos[2], text)
    IN IF r.err # "" THEN ExitOnError(r.err) /\ UNCHANGED body
       ELSE /\ edited_file' = [edited_file EXCEPT !.contents = r.val.new_text]
            /\ pc' = next
            /\ Step("mutate")
            /\ UNCHANGED <<disk, orig, op, body0, body, start_line, end_line, symbol,
                           start_pos, end_pos, dropped, writes, error>>

\* edited_file.insert_text_at_position(pos, text), then continue at `next`
BufferInsert(pos, text, next) ==
    LET r == insert_text_at_position(edited_file.contents, pos[1], pos[2], text)
    IN IF r.err # "" THEN ExitOnError(r.err) /\ UNCHANGED body
       ELSE /\ edited_file' = [edited_file EXCEPT !.contents = r.val.new_text]
            /\ pc' = next
            /\ Step("mutate")
            /\ UNCHANGED <<disk, orig, op, body0, body, start_line, end_line, symbol,
                           start_pos, end_pos, dropped, writes, error>>

\* replace_body: body = body.strip(); edited_file.delete_text_between_positions(...)
ReplaceBodyDelete ==
    /\ pc = "edit"
    /\ op = "replace_body"
    /\ LET r == delete_text_between_positions(edited_file.contents,
                    start_pos[1], start_pos[2], end_pos[1], end_pos[2])
       IN IF r.err # "" THEN ExitOnError(r.err) /\ body' = strip(body)
          ELSE /\ body' = strip(body)
               /\ edited_file' = [edited_file EXCEPT !.contents = r.val.new_text]
               /\ pc' = "edit2"
               /\ Step("mutate")
               /\ UNCHANGED <<disk, orig, op, body0, start_line, end_line, symbol,
                              start_pos, end_pos, dropped, writes, error>>
    /\ UNCHANGED <<matches, otherVars>>

\* replace_body: edited_file.insert_text_at_position(start_pos, body)
ReplaceBodyInsert ==
    /\ pc = "edit2"
    /\ op = "replace_body"
    /\ BufferInsert(start_pos, body, "save")
    /\ UNCHANGED <<matches, otherVars>>

\* insert_after_symbol / insert_before_symbol:
\* edited_file.insert_text_at_position(PositionInFile(line, col), body)
InsertAtSymbol ==
    /\ pc = "edit"
    /\ op \in {"insert_after_symbol", "insert_before_symbol"}
    /\ BufferInsert(start_pos, body, "save")
    /\ UNCHANGED <<matches, otherVars>>

\* insert_at_line: edited_file.insert_text_at_position(PositionInFile(line, 0), content)
InsertAtLine ==
    /\ pc = "edit"
    /\ op = "insert_at_line"
    /\ BufferInsert(<<start_line, 0>>, body, "save")
    /\ UNCHANGED <<matches, otherVars>>

\* delete_lines: delete from (start_line, 0) to (end_line + 1, 0)
DeleteLines ==
    /\ pc = "edit"
    /\ op = "delete_lines"
    /\ LET start_col == 0
           end_line_for_delete == end_line + 1
           end_col == 0
       IN BufferDelete(<<start_line, start_col>>, <<end_line_for_delete, end_col>>, "save")
    /\ UNCHANGED <<matches, otherVars>>

\* delete_symbol: edited_file.delete_text_between_positions(start_pos, end_pos)
DeleteSymbol ==
    /\ pc = "edit"
    /\ op = "delete_symbol"
    /\ BufferDelete(start_pos, end_pos, "save")
    /\ UNCHANGED <<matches, otherVars>>

\* A method of the abstract EditedFile raises for a reason of its implementation
\* (the language-server buffer operation fails).
EditedFileRaises ==
    /\ pc \in {"edit", "edit2"}
    /\ ExitOnError("EditError")
    /\ UNCHANGED <<body, matches, otherVars>>

\* variant of SaveFile: the file is not written
SaveFile_mut_skips ==
    /\ pc = "save"
    /\ pc' = "close"
    /\ Step("flush")
    /\ UNCHANGED <<disk, writes, orig, op, body0, body, start_line, end_line, symbol,
                   start_pos, end_pos, edited_file, dropped, error, matches, otherVars>>

\* _edited_file_context below its yield: open(abs_path, "w") and
\* f.write(edited_file.get_contents())
SaveFile ==
    /\ pc = "save"
    /\ disk' = edited_file.contents
    /\ writes' = writes + 1
    /\ pc' = "close"
    /\ Step("flush")
    /\ UNCHANGED <<orig, op, body0, body, start_line, end_line, symbol,
                   start_pos, end_pos, edited_file, dropped, error, matches, otherVars>>

\* variant of ExitOpenFileContext: the buffer is written once more on release
ExitOpenFileContext_mut_saves_again ==
    /\ pc = "close"
    /\ edited_file' = NoBuffer
    /\ disk' = edited_file.contents
    /\ writes' = writes + 1
    /\ pc' = "done"
    /\ Step("close")
    /\ UNCHANGED <<orig, op, body0, body, start_line, end_line, symbol,
                   start_pos, end_pos, dropped, error, matches, otherVars>>

\* the `with self._open_file_context(...)` block ends: the buffer is released
ExitOpenFileContext ==
    /\ pc = "close"
    /\ edited_file' = NoBuffer
    /\ pc' = "done"
    /\ Step("close")
    /\ UNCHANGED <<disk, writes, orig, op, body0, body, start_line, end_line, symbol,
                   start_pos, end_pos, dropped, error, matches, otherVars>>

Init ==
    /\ disk \in TextsOver(FileChars, MaxFileLen)
    /\ EditorIdle
    /\ TextIdle
    /\ RenameIdle
    /\ ToolIdle
    /\ RestIdle

Next ==
    \/ Call
    \/ FindUniqueSymbol
    \/ BodyPositions
    \/ InsertAfterSymbolPrepare
    \/ InsertBeforeSymbolPrepare
    \/ EnterEditedFileContext
    \/ ReplaceBodyDelete
    \/ ReplaceBodyInsert
    \/ InsertAtSymbol
    \/ InsertAtLine
    \/ DeleteLines
    \/ DeleteSymbol
    \/ EditedFileRaises
    \/ SaveFile
    \/ ExitOpenFileContext

Spec == Init /\ [][Next]_vars

\* ------------------------------------------------------------- SpecRename
\* A URI names a file in one of two spellings (plain or percent-encoded).
Spellings == {"plain", "quoted"}
Uris == [path : FileNames, spelling : Spellings]

\* relative_path = os.path.relpath(PathUtils.uri_to_path(uri), root): unquote and
\* normpath give the same path for both spellings of a file
uri_to_path(uri) == uri.path

\* The lists of text edits of one file: none, or one edit.
EditLists == {<<>>, <<"edit">>}

\* the workspace edits a backend can answer with: up to MaxEntries entries
\* (uri, edits) in the order of the mapping, no URI twice
WorkspaceEdits ==
    {w \in UNION {[1..n -> [uri : Uris, edits : EditLists]] : n \in 0..MaxEntries} :
        \A i, j \in 1..Len(w) : (i # j) => (w[i].uri # w[j].uri)}

\* the responses of request_rename_symbol_edit: None, or a workspace edit
RenameResponses ==
    {[received |-> TRUE, none |-> TRUE, changes |-> <<>>]}
    \cup {[received |-> TRUE, none |-> FALSE, changes |-> w] : w \in WorkspaceEdits}

\* uri_to_edits = extract_text_edits(workspace_edit), as a list of items
extract_text_edits(workspace_edit) == workspace_edit.changes

\* the buffer's contents after apply_text_edits(edits): the edits made, in order
apply_text_edits(contents, edits) == contents \o edits

\* msg = f"Successfully renamed '{name_path}' to '{new_name}' in {len(modified_files)} file(s)"
SuccessMessage(modified_files) ==
    <<"Successfully renamed", "name_path", "to", "new_name", "in",
      ToString(Len(modified_files)), "file(s)">>

Event(ev, file) == [ev |-> ev, file |-> file]

RenameRaise(e) ==
    /\ r_pc' = "raised"
    /\ r_error' = e

RenameInit ==
    /\ disk = <<>>
    /\ EditorIdle
    /\ TextIdle
    /\ ToolIdle
    /\ RestIdle
    /\ r_pc = "idle"
    /\ r_file = ""
    /\ r_symbol = NoRenameSymbol
    /\ r_disk = [f \in FileNames |-> <<>>]
    /\ r_open = {}
    /\ r_result = NoResponse
    /\ r_todo = <<>>
    /\ r_buffer = NoFileBuffer
    /\ r_modified = <<>>
    /\ r_log = <<>>
    /\ r_msg = <<>>
    /\ r_error = ""

\* The caller invokes rename_symbol(name_path, relative_file_path, new_name).
RenameCall ==
    /\ r_pc = "idle"
    /\ \E f \in FileNames : r_file' = f
    /\ r_pc' = "find"
    /\ UNCHANGED <<r_symbol, r_disk, r_open, r_result, r_todo, r_buffer, r_modified,
                   r_log, r_msg, r_error, editorVars, textVars, toolVars, restVars>>

\* symbol = self._find_unique_symbol(name_path, relative_file_path): n symbols
\* match; the one found has a position in the file or not
RenameFindUnique ==
    /\ r_pc = "find"
    /\ \E n \in 0..2 : \E p \in BOOLEAN :
          IF n = 0 THEN RenameRaise("NotFound") /\ UNCHANGED r_symbol
          ELSE IF n > 1 THEN RenameRaise("AmbiguousSymbol") /\ UNCHANGED r_symbol
          ELSE /\ r_symbol' = [resolved |-> TRUE, has_position |-> p]
               /\ r_pc' = "check"
               /\ UNCHANGED r_error
    /\ UNCHANGED <<r_file, r_disk, r_open, r_result, r_todo, r_buffer, r_modified,
                   r_log, r_msg, editorVars, textVars, toolVars, restVars>>

\* variant of RenameCheckPosition: the position is not checked
RenameCheckPosition_mut_no_check ==
    /\ r_pc = "check"
    /\ r_pc' = "open"
    /\ UNCHANGED <<r_file, r_symbol, r_disk, r_open, r_result, r_todo, r_buffer,
                   r_modified, r_log, r_msg, r_error, editorVars, textVars, toolVars, restVars>>

\* if not symbol.location.has_position_in_file(): raise ValueError(...)
RenameCheckPosition ==
    /\ r_pc = "check"
    /\ IF ~r_symbol.has_position
       THEN RenameRaise("InvalidTarget")
       ELSE r_pc' = "open" /\ UNCHANGED r_error
    /\ UNCHANGED <<r_file, r_symbol, r_disk, r_open, r_result, r_todo, r_buffer,
                   r_modified, r_log, r_msg, editorVars, textVars, toolVars, restVars>>

\* with lang_server.open_file(relative_file_path): the block is entered
RenameOpenFile ==
    /\ r_pc = "open"
    /\ r_open' = r_open \cup {r_file}
    /\ r_log' = Append(r_log, Event("open", r_file))
    /\ r_pc' = "request"
    /\ UNCHANGED <<r_file, r_symbol, r_disk, r_result, r_todo, r_buffer, r_modified,
                   r_msg, r_error, editorVars, textVars, toolVars, restVars>>

\* rename_result = lang_server.request_rename_symbol_edit(...): the backend answers
RenameRequest ==
    /\ r_pc = "request"
    /\ \E res \in RenameResponses : r_result' = res
    /\ r_log' = Append(r_log, Event("request", r_file))
    /\ r_pc' = "close"
    /\ UNCHANGED <<r_file, r_symbol, r_disk, r_open, r_todo, r_buffer, r_modified,
                   r_msg, r_error, editorVars, textVars, toolVars, restVars>>

\* variant of RenameRequestRaises: the file stays open when the request fails
RenameRequestRaises_mut_no_close ==
    /\ r_pc = "request"
    /\ r_log' = Append(r_log, Event("request", r_file))
    /\ RenameRaise("RequestError")
    /\ UNCHANGED <<r_file, r_symbol, r_disk, r_open, r_result, r_todo, r_buffer,
                   r_modified, r_msg, editorVars, textVars, toolVars, restVars>>

\* the request raises: the exception leaves the `with lang_server.open_file(...)`
\* block, which closes the file
RenameRequestRaises ==
    /\ r_pc = "request"
    /\ r_open' = r_open \ {r_file}
    /\ r_log' = r_log \o <<Event("request", r_file), Event("close", r_file)>>
    /\ RenameRaise("RequestError")
    /\ UNCHANGED <<r_file, r_symbol, r_disk, r_result, r_todo, r_buffer, r_modified,
                   r_msg, editorVars, textVars, toolVars, restVars>>

\* the `with lang_server.open_file(...)` block ends: the file is closed
RenameCloseFile ==
    /\ r_pc = "close"
    /\ r_open' = r_open \ {r_file}
    /\ r_log' = Append(r_log, Event("close", r_file))
    /\ r_pc' = "result"
    /\ UNCHANGED <<r_file, r_symbol, r_disk, r_result, r_todo, r_buffer, r_modified,
                   r_msg, r_error, editorVars, textVars, toolVars, restVars>>

\* if rename_result is None: raise ValueError(...); otherwise
\* _apply_workspace_edit(rename_result) starts: uri_to_edits = extract_text_edits(...)
RenameCheckResult ==
    /\ r_pc = "result"
    /\ IF r_result.none
       THEN RenameRaise("NotSupported") /\ UNCHANGED r_todo
       ELSE /\ r_todo' = extract_text_edits(r_result)
            /\ r_pc' = "loop"
            /\ UNCHANGED r_error
    /\ UNCHANGED <<r_file, r_symbol, r_disk, r_open, r_result, r_buffer, r_modified,
                   r_log, r_msg, editorVars, textVars, toolVars, restVars>>

\* the next iteration of `for uri, edits in uri_to_edits.items()`: the path is
\* appended to modified_relative_paths and _edited_file_context opens its buffer
ApplyNextEntry ==
    /\ r_pc = "loop"
    /\ r_todo # <<>>
    /\ LET relative_path == uri_to_path(Head(r_todo).uri)
       IN /\ r_modified' = Append(r_modified, relative_path)
          /\ r_open' = r_open \cup {relative_path}
          /\ r_buffer' = [open |-> TRUE, file |-> relative_path,
                          contents |-> r_disk[relative_path]]
          /\ r_log' = Append(r_log, Event("open", relative_path))
    /\ r_pc' = "apply"
    /\ UNCHANGED <<r_file, r_symbol, r_disk, r_result, r_todo, r_msg, r_error,
                   editorVars, textVars, toolVars, restVars>>

\* variant of ApplyTextEdits: the buffer is not flushed after its edits
ApplyTextEdits_mut_no_flush ==
    /\ r_pc = "apply"
    /\ r_buffer' = [r_buffer EXCEPT !.contents = apply_text_edits(@, Head(r_todo).edits)]
    /\ r_log' = Append(r_log, Event("apply", r_buffer.file))
    /\ r_pc' = "release"
    /\ UNCHANGED <<r_file, r_symbol, r_disk, r_open, r_result, r_todo, r_modified,
                   r_msg, r_error, editorVars, textVars, toolVars, restVars>>

\* edited_file.apply_text_edits(edits)
ApplyTextEdits ==
    /\ r_pc = "apply"
    /\ r_buffer' = [r_buffer EXCEPT !.contents = apply_text_edits(@, Head(r_todo).edits)]
    /\ r_log' = Append(r_log, Event("apply", r_buffer.file))
    /\ r_pc' = "save"
    /\ UNCHANGED <<r_file, r_symbol, r_disk, r_open, r_result, r_todo, r_modified,
                   r_msg, r_error, editorVars, textVars, toolVars, restVars>>

\* apply_text_edits raises: the exception leaves _edited_file_context at its
\* yield, the save is skipped and the buffer is released
ApplyTextEditsRaises ==
    /\ r_pc = "apply"
    /\ r_open' = r_open \ {r_buffer.file}
    /\ r_buffer' = NoFileBuffer
    /\ r_log' = Append(r_log, Event("close", r_buffer.file))
    /\ RenameRaise("EditError")
    /\ UNCHANGED <<r_file, r_symbol, r_disk, r_result, r_todo, r_modified, r_msg,
                   editorVars, textVars, toolVars, restVars>>

\* variant of ApplySave: a buffer without changes is not written
ApplySave_mut_skips_unchanged ==
    /\ r_pc = "save"
    /\ IF r_buffer.contents = r_disk[r_buffer.file]
       THEN UNCHANGED <<r_disk, r_log>>
       ELSE /\ r_disk' = [r_disk EXCEPT ![r_buffer.file] = r_buffer.contents]
            /\ r_log' = Append(r_log, Event("write", r_buffer.file))
    /\ r_pc' = "release"
    /\ UNCHANGED <<r_file, r_symbol, r_open, r_result, r_todo, r_buffer, r_modified,
                   r_msg, r_error, editorVars, textVars, toolVars, restVars>>

\* below the yield of _edited_file_context: the buffer's contents are written
ApplySave ==
    /\ r_pc = "save"
    /\ r_disk' = [r_disk EXCEPT ![r_buffer.file] = r_buffer.contents]
    /\ r_log' = Append(r_log, Event("write", r_buffer.file))
    /\ r_pc' = "release"
    /\ UNCHANGED <<r_file, r_symbol, r_open, r_result, r_todo, r_buffer, r_modified,
                   r_msg, r_error, editorVars, textVars, toolVars, restVars>>

\* the `with self._edited_file_context(...)` block ends: the buffer is released
\* and the loop goes on
ApplyClose ==
    /\ r_pc = "release"
    /\ r_open' = r_open \ {r_buffer.file}
    /\ r_buffer' = NoFileBuffer
    /\ r_log' = Append(r_log, Event("close", r_buffer.file))
    /\ r_todo' = Tail(r_todo)
    /\ r_pc' = "loop"
    /\ UNCHANGED <<r_file, r_symbol, r_disk, r_result, r_modified, r_msg, r_error,
                   editorVars, textVars, toolVars, restVars>>

\* the loop is over: _apply_workspace_edit returns modified_relative_paths,
\* rename_symbol returns msg and RenameSymbolTool.apply returns it unchanged
RenameReturn ==
    /\ r_pc = "loop"
    /\ r_todo = <<>>
    /\ r_msg' = SuccessMessage(r_modified)
    /\ r_pc' = "done"
    /\ UNCHANGED <<r_file, r_symbol, r_disk, r_open, r_result, r_todo, r_buffer,
                   r_modified, r_log, r_error, editorVars, textVars, toolVars, restVars>>

RenameNext ==
    \/ RenameCall
    \/ RenameFindUnique
    \/ RenameCheckPosition
    \/ RenameOpenFile
    \/ RenameRequest
    \/ RenameRequestRaises
    \/ RenameCloseFile
    \/ RenameCheckResult
    \/ ApplyNextEntry
    \/ ApplyTextEdits
    \/ ApplyTextEditsRaises
    \/ ApplySave
    \/ ApplyClose
    \/ RenameReturn

SpecRename == RenameInit /\ [][RenameNext]_vars

\* ------------------------------------------------------------- SpecTools
\* valid_kinds = set(k.value for k in SymbolKind): the LSP symbol kinds 1-26
valid_kinds == 1..26

\* the kind values a caller passes: the ends of the valid range and the values
\* next to them
KindValues == {0, 1, 26, 27}
KindLists == UNION {[1..n -> KindValues] : n \in 0..MaxKinds}

Tools == {"find_symbol", "find_referencing_symbols"}

\* variant of _parse_symbol_kinds: only kinds above the range are rejected
_parse_symbol_kinds_mut_accepts_zero(kinds) ==
    LET invalid == {i \in DOMAIN kinds : kinds[i] > 26}
    IN IF kinds = <<>> THEN Ok(NoKinds)
       ELSE IF invalid # {} THEN Raise("InvalidArgument")
       ELSE Ok([none |-> FALSE, kinds |-> kinds])

\* _parse_symbol_kinds(kinds, param_name): None for an empty list, ValueError
\* if a value is not a symbol kind, otherwise the kinds
_parse_symbol_kinds(kinds) ==
    LET invalid == {i \in DOMAIN kinds : kinds[i] \notin valid_kinds}
    IN IF kinds = <<>> THEN Ok(NoKinds)
       ELSE IF invalid # {} THEN Raise("InvalidArgument")
       ELSE Ok([none |-> FALSE, kinds |-> kinds])

ToolInit ==
    /\ disk = <<>>
    /\ EditorIdle
    /\ TextIdle
    /\ RenameIdle
    /\ RestIdle
    /\ k_pc = "idle"
    /\ k_tool = "none"
    /\ k_include = <<>>
    /\ k_exclude = <<>>
    /\ k_parsed_include = NoKinds
    /\ k_parsed_exclude = NoKinds
    /\ k_queries = <<>>
    /\ k_error = ""

\* The caller invokes FindSymbolTool.apply or FindReferencingSymbolsTool.apply.
ToolCall ==
    /\ k_pc = "idle"
    /\ \E tool \in Tools : \E inc \in KindLists : \E exc \in KindLists :
          /\ k_tool' = tool
          /\ k_include' = inc
          /\ k_exclude' = exc
    /\ k_pc' = "parse_include"
    /\ UNCHANGED <<k_parsed_include, k_parsed_exclude, k_queries, k_error,
                   editorVars, textVars, renameVars, restVars>>

\* parsed_include_kinds = _parse_symbol_kinds(include_kinds, "include_kinds")
ParseIncludeKinds ==
    /\ k_pc = "parse_include"
    /\ LET r == _parse_symbol_kinds(k_include)
       IN IF r.err # ""
          THEN /\ k_pc' = "raised"
               /\ k_error' = r.err
               /\ UNCHANGED k_parsed_include
          ELSE /\ k_parsed_include' = r.val
               /\ k_pc' = "parse_exclude"
               /\ UNCHANGED k_error
    /\ UNCHANGED <<k_tool, k_include, k_exclude, k_parsed_exclude, k_queries,
                   editorVars, textVars, renameVars, restVars>>

\* parsed_exclude_kinds = _parse_symbol_kinds(exclude_kinds, "exclude_kinds")
ParseExcludeKinds ==
    /\ k_pc = "parse_exclude"
    /\ LET r == _parse_symbol_kinds(k_exclude)
       IN IF r.err # ""
          THEN /\ k_pc' = "raised"
               /\ k_error' = r.err
               /\ UNCHANGED k_parsed_exclude
          ELSE /\ k_parsed_exclude' = r.val
               /\ k_pc' = "query"
               /\ UNCHANGED k_error
    /\ UNCHANGED <<k_tool, k_include, k_exclude, k_parsed_include, k_queries,
                   editorVars, textVars, renameVars, restVars>>

\* symbol_retriever.find(...) / symbol_retriever.find_referencing_symbols(...)
\* with the parsed kinds; the tool returns the symbols found
SymbolQuery ==
    /\ k_pc = "query"
    /\ k_queries' = Append(k_queries,
                           [query |-> IF k_tool = "find_symbol" THEN "find"
                                      ELSE "find_referencing_symbols",
                            include_kinds |-> k_parsed_include,
                            exclude_kinds |-> k_parsed_exclude])
    /\ k_pc' = "done"
    /\ UNCHANGED <<k_tool, k_include, k_exclude, k_parsed_include, k_parsed_exclude,
                   k_error, editorVars, textVars, renameVars, restVars>>

ToolNext == ToolCall \/ ParseIncludeKinds \/ ParseExcludeKinds \/ SymbolQuery

SpecTools == ToolInit /\ [][ToolNext]_vars

\* ------------------------------------------------------------- SpecEncoding
\* One edit call of a JetBrainsCodeEditor, from the construction of the editor
\* to the save, with the file as bytes on disk and the buffer as characters.
\* Bytes are written in hexadecimal ("C3"), characters as code points ("UE9").
DEFAULT_SOURCE_FILE_ENCODING == "utf-8"

Encodings == {"utf-8", "latin-1"}

Agents == {"none", "no_project", "active_project"}

DiskBytes == {"61", "C3", "A9", "E9"}

ByteStrings == UNION {[1..n -> DiskBytes] : n \in 0..MaxBytes}

\* bytes.decode("latin-1"): every byte is the character of the same code point
latin1_char(b) == "U" \o b

\* str.encode("latin-1") of the characters below U+100
latin1_byte(c) ==
    CASE c = "U61" -> "61"
      [] c = "UA9" -> "A9"
      [] c = "UC3" -> "C3"
      [] c = "UE9" -> "E9"

\* str.encode("utf-8") of one character
utf8_bytes(c) ==
    CASE c = "U61" -> <<"61">>
      [] c = "UA9" -> <<"C2", "A9">>
      [] c = "UC3" -> <<"C3", "83">>
      [] c = "UE9" -> <<"C3", "A9">>

RECURSIVE utf8_decode(_)
\* bytes.decode("utf-8") over DiskBytes: 61 is "a", C3 A9 is U+E9, and a lead
\* byte without its continuation, or a continuation alone, does not decode
utf8_decode(b) ==
    IF b = <<>> THEN Ok(<<>>)
    ELSE IF Head(b) = "61"
    THEN LET r == utf8_decode(Tail(b))
         IN IF r.err # "" THEN r ELSE Ok(<<"U61">> \o r.val)
    ELSE IF Head(b) = "C3" /\ Len(b) >= 2 /\ b[2] = "A9"
    THEN LET r == utf8_decode(Tail(Tail(b)))
         IN IF r.err # "" THEN r ELSE Ok(<<"UE9">> \o r.val)
    ELSE Raise("UnicodeDecodeError")

decode(b, encoding) ==
    IF encoding = "latin-1" THEN Ok([i \in 1..Len(b) |-> latin1_char(b[i])])
    ELSE utf8_decode(b)

RECURSIVE encode(_, _)
encode(s, encoding) ==
    IF s = <<>> THEN <<>>
    ELSE (IF encoding = "latin-1" THEN <<latin1_byte(Head(s))>> ELSE utf8_bytes(Head(s)))
         \o encode(Tail(s), encoding)

EncodingInit ==
    /\ OldIdle
    /\ DownloadIdle
    /\ DartIdle
    /\ DepsIdle
    /\ DotnetIdle
    /\ e_pc = "new"
    /\ e_agent \in Agents
    /\ e_config \in Encodings
    /\ e_encoding = ""
    /\ e_bytes \in ByteStrings
    /\ e_content = <<>>
    /\ e_io = NoIo

\* JetBrainsCodeEditor(project, agent): self.encoding is the encoding of the
\* agent's active project, and the default without an agent or active project
CodeEditorInit ==
    /\ e_pc = "new"
    /\ e_encoding' = IF e_agent = "active_project" THEN e_config
                     ELSE DEFAULT_SOURCE_FILE_ENCODING
    /\ e_pc' = "constructed"
    /\ UNCHANGED <<e_agent, e_config, e_bytes, e_content, e_io, notEncVars>>

\* EditedFile(relative_path, project) reads the file with the project's encoding
EditedFileInit ==
    /\ e_pc = "constructed"
    /\ decode(e_bytes, e_config).err = ""
    /\ e_content' = decode(e_bytes, e_config).val
    /\ e_io' = [e_io EXCEPT !.read = e_config]
    /\ e_pc' = "open"
    /\ UNCHANGED <<e_agent, e_config, e_encoding, e_bytes, notEncVars>>

\* ... and the call fails there when the bytes do not decode
EditedFileInitRaises ==
    /\ e_pc = "constructed"
    /\ decode(e_bytes, e_config).err # ""
    /\ e_io' = [e_io EXCEPT !.read = e_config]
    /\ e_pc' = "failed"
    /\ UNCHANGED <<e_agent, e_config, e_encoding, e_bytes, e_content, notEncVars>>

\* the edit of the call: EditedFile.insert_text_at_position at the file's start
EditedFileInsert ==
    /\ e_pc = "open"
    /\ \E c \in {"U61", "UE9"} :
          e_content' = insert_text_at_position(e_content, 0, 0, <<c>>).val.new_text
    /\ e_pc' = "edited"
    /\ UNCHANGED <<e_agent, e_config, e_encoding, e_bytes, e_io, notEncVars>>

\* _edited_file_context after the yield: the file is written with self.encoding
SaveEditedFile ==
    /\ e_pc = "edited"
    /\ e_bytes' = encode(e_content, e_encoding)
    /\ e_io' = [e_io EXCEPT !.write = e_encoding]
    /\ e_pc' = "done"
    /\ UNCHANGED <<e_agent, e_config, e_encoding, e_content, notEncVars>>

EncodingNext ==
    \/ CodeEditorInit
    \/ EditedFileInit
    \/ EditedFileInitRaises
    \/ EditedFileInsert
    \/ SaveEditedFile

SpecEncoding == EncodingInit /\ [][EncodingNext]_vars

\* ------------------------------------------------------------- SpecDownload
\* One call of FileUtils.download_and_extract_archive. A path is the sequence
\* of its components, "/" a leading separator; target_path is /t. A digest is
\* written as the record of its spelling, its algorithm and the content it is
\* the digest of (digests of different contents differ).
Contents == {"c1", "c2"}

EmptyHash == [form |-> "empty", algo |-> "", of |-> ""]

ExpectedHashes ==
    {[form |-> "hex", algo |-> "sha256", of |-> "c1"],
     [form |-> "HEX", algo |-> "sha256", of |-> "c1"],
     [form |-> "b64", algo |-> "sha256", of |-> "c1"],
     [form |-> "hex", algo |-> "sha512", of |-> "c1"],
     [form |-> "junk", algo |-> "", of |-> ""]}

ChecksumResponses ==
    {NoChecksum,
     [given |-> TRUE, err |-> TRUE, hash |-> NoHash],
     [given |-> TRUE, err |-> FALSE, hash |-> [form |-> "hex", algo |-> "sha256", of |-> "c1"]],
     [given |-> TRUE, err |-> FALSE, hash |-> [form |-> "junk", algo |-> "", of |-> ""]]}

ArchiveTypes == {"tar", "zip", "zip.gz", "gz", "binary", "rar"}

MemberNames == {<<"a">>, <<"b">>, <<"..", "a">>, <<"..", "t", "a">>, <<"/", "a">>}

MemberLists == UNION {[1..n -> MemberNames] : n \in 0..MaxMembers}

target_path == <<"t">>

\* hashlib.new(algo) over the file, as hexdigest
_hash_file(content, algo) == [form |-> "hex", algo |-> algo, of |-> content]

\* str.lower() of a digest
lower(h) == IF h.form = "HEX" THEN [h EXCEPT !.form = "hex"] ELSE h

\* FileUtils._verify_hash_auto: the exception it raises, "" if it returns
_verify_hash_auto(content, expected) ==
    LET exp == IF expected.form = "b64" THEN [expected EXCEPT !.form = "hex"] ELSE expected
        algo == IF exp.algo \in {"sha256", "sha512"} THEN exp.algo ELSE "None"
    IN IF algo = "None" THEN "Unsupported expected hash length"
       ELSE IF lower(_hash_file(content, algo)) # lower(exp) THEN "mismatch"
       ELSE ""

RECURSIVE normpath(_, _)
\* os.path.abspath of an absolute path: ".." leaves the last component of the
\* path so far (done), and stays at the root there
normpath(done, rest) ==
    IF rest = <<>> THEN done
    ELSE IF Head(rest) = ".."
    THEN normpath(IF done = <<>> THEN <<>> ELSE SubSeq(done, 1, Len(done) - 1), Tail(rest))
    ELSE normpath(Append(done, Head(rest)), Tail(rest))

\* os.path.abspath(os.path.join(target_path, name)): an absolute name replaces
\* target_path
dest_of(name) ==
    IF name # <<>> /\ Head(name) = "/" THEN normpath(<<>>, Tail(name))
    ELSE normpath(<<>>, target_path \o name)

_is_within_directory(base, path) ==
    /\ Len(path) >= Len(base)
    /\ SubSeq(path, 1, Len(base)) = base

\* the check of one member in the tar and zip loops
IsSafe(name) == _is_within_directory(target_path, dest_of(name))

\* tar.extractall(target_path) writes each member at its joined path
tar_path(name) == dest_of(name)

RECURSIVE zip_arcname(_)
\* ZipFile.extract drops the leading separator and the ".." components
zip_arcname(name) ==
    IF name = <<>> THEN <<>>
    ELSE IF Head(name) \in {"/", ".."} THEN zip_arcname(Tail(name))
    ELSE <<Head(name)>> \o zip_arcname(Tail(name))

zip_path(name) == target_path \o zip_arcname(name)

Truthy(h) == h.form \notin {"None", "empty"}

DownloadInit ==
    /\ OldIdle
    /\ EncodingIdle
    /\ DartIdle
    /\ DepsIdle
    /\ DotnetIdle
    /\ d_pc = "start"
    /\ d_type \in ArchiveTypes
    /\ d_expected \in {NoHash, EmptyHash} \cup ExpectedHashes
    /\ d_checksum \in ChecksumResponses
    /\ d_file \in Contents
    /\ d_members \in IF d_type \in {"tar", "zip", "zip.gz"} THEN MemberLists ELSE {<<>>}
    /\ d_next = 0
    /\ d_tmp = {}
    /\ d_tmp_files = <<>>
    /\ d_target = NoTarget
    /\ d_log = <<>>
    /\ d_error = ""

\* tmp_files.append(tmp_file_name); FileUtils.download_file(url, tmp_file_name):
\* the file is downloaded, or the download fails before or while it is written
DownloadFile ==
    /\ d_pc = "start"
    /\ d_tmp_files' = <<"tmp">>
    /\ \E outcome \in {"ok", "no_response", "broken"} :
          /\ d_tmp' = IF outcome = "no_response" THEN {} ELSE {"tmp"}
          /\ d_error' = IF outcome = "ok" THEN "" ELSE "Error downloading file."
          /\ d_pc' = IF outcome = "ok" THEN "downloaded" ELSE "except"
    /\ d_log' = Append(d_log, "download")
    /\ UNCHANGED <<d_type, d_expected, d_checksum, d_file, d_members, d_next, d_target,
                   notDlVars>>

\* expected_sha256 = _fetch_expected_hash_from_url(...) when no hash was given
\* and a checksum_url was
FetchExpectedHash ==
    /\ d_pc = "downloaded"
    /\ IF d_expected = NoHash /\ d_checksum.given
       THEN /\ d_log' = Append(d_log, "fetch")
            /\ IF d_checksum.err
               THEN /\ d_error' = "Failed to fetch or parse checksum file"
                    /\ d_pc' = "except"
                    /\ UNCHANGED d_expected
               ELSE /\ d_expected' = d_checksum.hash
                    /\ d_pc' = "hash"
                    /\ UNCHANGED d_error
       ELSE /\ d_pc' = "hash"
            /\ UNCHANGED <<d_expected, d_error, d_log>>
    /\ UNCHANGED <<d_type, d_checksum, d_file, d_members, d_next, d_tmp, d_tmp_files,
                   d_target, notDlVars>>

VerifyHash_mut_no_verify ==
    /\ d_pc = "hash"
    /\ d_pc' = "verified"
    /\ UNCHANGED <<d_type, d_expected, d_checksum, d_file, d_members, d_next, d_tmp,
                   d_tmp_files, d_target, d_log, d_error, notDlVars>>

\* if expected_sha256: FileUtils._verify_hash_auto(tmp_file_name, expected_sha256)
VerifyHash ==
    /\ d_pc = "hash"
    /\ IF Truthy(d_expected)
       THEN /\ d_log' = Append(d_log, "verify")
            /\ d_error' = _verify_hash_auto(d_file, d_expected)
            /\ d_pc' = IF d_error' = "" THEN "verified" ELSE "except"
       ELSE /\ d_pc' = "verified"
            /\ UNCHANGED <<d_log, d_error>>
    /\ UNCHANGED <<d_type, d_expected, d_checksum, d_file, d_members, d_next, d_tmp,
                   d_tmp_files, d_target, notDlVars>>

\* os.makedirs(target_path, exist_ok=True) for the archive types with members
MakeTargetDir ==
    /\ d_pc = "verified"
    /\ IF d_type \in {"tar", "zip", "zip.gz"}
       THEN /\ d_target' = [d_target EXCEPT !.dir = TRUE]
            /\ d_log' = Append(d_log, "makedirs")
       ELSE UNCHANGED <<d_target, d_log>>
    /\ d_pc' = "extract"
    /\ UNCHANGED <<d_type, d_expected, d_checksum, d_file, d_members, d_next, d_tmp,
                   d_tmp_files, d_error, notDlVars>>

\* tar: every member is checked, then tar.extractall(target_path)
ExtractTar ==
    /\ d_pc = "extract"
    /\ d_type = "tar"
    /\ IF \E i \in 1..Len(d_members) : ~IsSafe(d_members[i])
       THEN /\ d_error' = "Unsafe path detected in tar archive"
            /\ d_pc' = "except"
            /\ UNCHANGED <<d_target, d_log, d_next>>
       ELSE /\ d_target' = [d_target EXCEPT !.paths =
                                @ \cup {tar_path(d_members[i]) : i \in 1..Len(d_members)}]
            /\ d_log' = Append(d_log, "extract")
            /\ d_next' = Len(d_members)
            /\ d_pc' = "finally"
            /\ UNCHANGED d_error
    /\ UNCHANGED <<d_type, d_expected, d_checksum, d_file, d_members, d_tmp, d_tmp_files,
                   notDlVars>>

\* zip.gz: the download is unzipped into a second temporary file
Gunzip ==
    /\ d_pc = "extract"
    /\ d_type = "zip.gz"
    /\ d_tmp_files' = Append(d_tmp_files, "tmp.zip")
    /\ d_tmp' = d_tmp \cup {"tmp.zip"}
    /\ d_log' = Append(d_log, "gunzip")
    /\ d_pc' = "unzipped"
    /\ UNCHANGED <<d_type, d_expected, d_checksum, d_file, d_members, d_next, d_target,
                   d_error, notDlVars>>

\* zip, zip.gz: one round of the loop over infolist(): the member is checked
\* and then extracted; the loop ends after the last member
ExtractZipMember ==
    /\ \/ d_pc = "extract" /\ d_type = "zip"
       \/ d_pc = "unzipped" /\ d_type = "zip.gz"
    /\ IF d_next = Len(d_members)
       THEN /\ d_pc' = "finally"
            /\ UNCHANGED <<d_target, d_log, d_next, d_error>>
       ELSE IF ~IsSafe(d_members[d_next + 1])
       THEN /\ d_error' = "Unsafe path detected in zip archive"
            /\ d_pc' = "except"
            /\ UNCHANGED <<d_target, d_log, d_next>>
       ELSE /\ d_target' = [d_target EXCEPT !.paths = @ \cup {zip_path(d_members[d_next + 1])}]
            /\ d_log' = Append(d_log, "extract")
            /\ d_next' = d_next + 1
            /\ UNCHANGED <<d_pc, d_error>>
    /\ UNCHANGED <<d_type, d_expected, d_checksum, d_file, d_members, d_tmp, d_tmp_files,
                   notDlVars>>

\* gz: the download is unzipped into the file target_path
ExtractGz ==
    /\ d_pc = "extract"
    /\ d_type = "gz"
    /\ d_target' = [d_target EXCEPT !.paths = @ \cup {target_path}]
    /\ d_log' = Append(d_log, "extract")
    /\ d_pc' = "finally"
    /\ UNCHANGED <<d_type, d_expected, d_checksum, d_file, d_members, d_next, d_tmp,
                   d_tmp_files, d_error, notDlVars>>

\* binary: shutil.move(tmp_file_name, target_path)
MoveBinary ==
    /\ d_pc = "extract"
    /\ d_type = "binary"
    /\ d_target' = [d_target EXCEPT !.paths = @ \cup {target_path}]
    /\ d_tmp' = d_tmp \ {"tmp"}
    /\ d_log' = Append(d_log, "move")
    /\ d_pc' = "finally"
    /\ UNCHANGED <<d_type, d_expected, d_checksum, d_file, d_members, d_next, d_tmp_files,
                   d_error, notDlVars>>

\* any other archive_type
UnknownArchiveType ==
    /\ d_pc = "extract"
    /\ d_type \notin {"tar", "zip", "zip.gz", "gz", "binary"}
    /\ d_error' = "Unknown archive type"
    /\ d_pc' = "except"
    /\ UNCHANGED <<d_type, d_expected, d_checksum, d_file, d_members, d_next, d_tmp,
                   d_tmp_files, d_target, d_log, notDlVars>>

\* except: raise SolidLSPException("Error extracting archive."); finally: every
\* file of tmp_files that exists is removed
CleanUp ==
    /\ d_pc \in {"finally", "except"}
    /\ d_tmp' = d_tmp \ {d_tmp_files[i] : i \in 1..Len(d_tmp_files)}
    /\ d_log' = Append(d_log, "unlink")
    /\ d_pc' = IF d_pc = "except" THEN "raised" ELSE "returned"
    /\ UNCHANGED <<d_type, d_expected, d_checksum, d_file, d_members, d_next, d_tmp_files,
                   d_target, d_error, notDlVars>>

DownloadNext ==
    \/ DownloadFile
    \/ FetchExpectedHash
    \/ VerifyHash
    \/ MakeTargetDir
    \/ ExtractTar
    \/ Gunzip
    \/ ExtractZipMember
    \/ ExtractGz
    \/ MoveBinary
    \/ UnknownArchiveType
    \/ CleanUp

SpecDownload == DownloadInit /\ [][DownloadNext]_vars

\* ------------------------------------------------------------- SpecDart
\* One call of DartLanguageServer._start_server, with the backend process
\* sending requests and notifications of its own once it runs.
HandlerRegistrations ==
    <<"client/registerCapability", "language/status", "window/logMessage",
      "workspace/executeClientCommand", "$/progress", "textDocument/publishDiagnostics",
      "language/actionableNotification", "experimental/serverStatus">>

ServerMethods == {HandlerRegistrations[i] : i \in 1..Len(HandlerRegistrations)}

DartInit ==
    /\ OldIdle
    /\ EncodingIdle
    /\ DownloadIdle
    /\ DepsIdle
    /\ DotnetIdle
    /\ s_pc = "register"
    /\ s_handlers = {}
    /\ s_process = "not_started"
    /\ s_log = <<>>
    /\ s_received = <<>>

\* self.server.on_request(...) / self.server.on_notification(...), in the
\* order of the code
RegisterHandler ==
    /\ s_pc = "register"
    /\ LET method == HandlerRegistrations[Cardinality(s_handlers) + 1]
       IN /\ s_handlers' = s_handlers \cup {method}
          /\ s_log' = Append(s_log, method)
    /\ s_pc' = IF Cardinality(s_handlers') = Len(HandlerRegistrations) THEN "registered"
               ELSE "register"
    /\ UNCHANGED <<s_process, s_received, notDartVars>>

ServerStart_mut_before_handlers ==
    /\ s_pc \in {"register", "registered"}
    /\ s_log' = Append(s_log, "start")
    /\ s_process' = "running"
    /\ s_pc' = "started"
    /\ UNCHANGED <<s_handlers, s_received, notDartVars>>

\* self.server.start(): the backend process runs, or could not be started
ServerStart ==
    /\ s_pc = "registered"
    /\ s_log' = Append(s_log, "start")
    /\ \E ok \in BOOLEAN :
          /\ s_process' = IF ok THEN "running" ELSE "failed"
          /\ s_pc' = IF ok THEN "started" ELSE "raised"
    /\ UNCHANGED <<s_handlers, s_received, notDartVars>>

\* self.server.send_request("initialize", initialize_params): the request goes out
SendInitialize ==
    /\ s_pc = "started"
    /\ s_log' = Append(s_log, "initialize")
    /\ s_pc' = "waiting"
    /\ UNCHANGED <<s_handlers, s_process, s_received, notDartVars>>

\* ... and send_request returns the response, or raises on an error response
ReceiveInitializeResponse ==
    /\ s_pc = "waiting"
    /\ \E ok \in BOOLEAN :
          /\ s_log' = Append(s_log, IF ok THEN "response" ELSE "error")
          /\ s_pc' = IF ok THEN "responded" ELSE "raised"
    /\ UNCHANGED <<s_handlers, s_process, s_received, notDartVars>>

\* self.server.notify.initialized({})
NotifyInitialized ==
    /\ s_pc = "responded"
    /\ s_log' = Append(s_log, "initialized")
    /\ s_pc' = "ready"
    /\ UNCHANGED <<s_handlers, s_process, s_received, notDartVars>>

\* the running backend sends a request or notification; it is handled when a
\* handler is registered for its method
ServerSends ==
    /\ s_process = "running"
    /\ Len(s_received) < MaxServerMessages
    /\ \E method \in ServerMethods :
          s_received' = Append(s_received, [method |-> method, handled |-> method \in s_handlers])
    /\ UNCHANGED <<s_pc, s_handlers, s_process, s_log, notDartVars>>

DartNext ==
    \/ RegisterHandler
    \/ ServerStart
    \/ SendInitialize
    \/ ReceiveInitializeResponse
    \/ NotifyInitialized
    \/ ServerSends

SpecDart == DartInit /\ [][DartNext]_vars

\* ------------------------------------------------------------- SpecDeps
\* One construction of a RuntimeDependencyCollection. A RuntimeDependency is
\* the record of its id, platform_id and url ("None" is Python's None); an
\* override is a mapping that has the key id and may have the other two.
DepIds == {"x", "y"}

PlatformIds == {"None", "linux-x64"}

RuntimeDependencies == [id : DepIds, platform_id : PlatformIds, url : {"u1"}]

Overrides ==
    {o \in [id : DepIds, has_platform_id : BOOLEAN, platform_id : PlatformIds,
            has_url : BOOLEAN, url : {"None", "u2"}] :
        /\ ~o.has_platform_id => o.platform_id = "None"
        /\ o.has_url <=> o.url = "u2"}

DependencyLists == UNION {[1..n -> RuntimeDependencies] : n \in 0..MaxDeps}

OverrideLists == UNION {[1..n -> Overrides] : n \in 0..MaxOverrides}

\* dep_key = (dep.id, dep.platform_id)
dep_key(dep) == <<dep.id, dep.platform_id>>

\* (dep_values_override["id"], dep_values_override.get("platform_id"))
override_key(o) == <<o.id, IF o.has_platform_id THEN o.platform_id ELSE "None">>

\* RuntimeDependency(**dep_values_override): the fields not given are None
new_runtime_dep(o) ==
    [id |-> o.id,
     platform_id |-> IF o.has_platform_id THEN o.platform_id ELSE "None",
     url |-> IF o.has_url THEN o.url ELSE "None"]

\* dataclasses.replace(base_dep, **dep_values_override): the fields not given
\* are those of base_dep
replace(base_dep, o) ==
    [id |-> o.id,
     platform_id |-> IF o.has_platform_id THEN o.platform_id ELSE base_dep.platform_id,
     url |-> IF o.has_url THEN o.url ELSE base_dep.url]

\* d[key] = dep on a dict
DictSet(d, key, dep) ==
    [k \in (DOMAIN d) \cup {key} |-> IF k = key THEN dep ELSE d[k]]

DepsInit ==
    /\ OldIdle
    /\ EncodingIdle
    /\ DownloadIdle
    /\ DartIdle
    /\ DotnetIdle
    /\ p_pc = "dependencies"
    /\ p_deps \in DependencyLists
    /\ p_overrides \in OverrideLists
    /\ p_next = 0
    /\ p_map = <<>>
    /\ p_error = ""

AddDependency_mut_overwrites ==
    /\ p_pc = "dependencies"
    /\ IF p_next = Len(p_deps)
       THEN /\ p_pc' = "overrides"
            /\ p_next' = 0
            /\ UNCHANGED <<p_map, p_error>>
       ELSE /\ p_map' = DictSet(p_map, dep_key(p_deps[p_next + 1]), p_deps[p_next + 1])
            /\ p_next' = p_next + 1
            /\ UNCHANGED <<p_pc, p_error>>
    /\ UNCHANGED <<p_deps, p_overrides, notDepVars>>

\* one round of `for dep in dependencies`; the loop ends after the last one
AddDependency ==
    /\ p_pc = "dependencies"
    /\ IF p_next = Len(p_deps)
       THEN /\ p_pc' = "overrides"
            /\ p_next' = 0
            /\ UNCHANGED <<p_map, p_error>>
       ELSE IF dep_key(p_deps[p_next + 1]) \in DOMAIN p_map
       THEN /\ p_error' = "ValueError"
            /\ p_pc' = "raised"
            /\ UNCHANGED <<p_map, p_next>>
       ELSE /\ p_map' = DictSet(p_map, dep_key(p_deps[p_next + 1]), p_deps[p_next + 1])
            /\ p_next' = p_next + 1
            /\ UNCHANGED <<p_pc, p_error>>
    /\ UNCHANGED <<p_deps, p_overrides, notDepVars>>

\* one round of `for dep_values_override in overrides`; the loop ends after
\* the last one, and with it __init__
ApplyOverride ==
    /\ p_pc = "overrides"
    /\ IF p_next = Len(p_overrides)
       THEN /\ p_pc' = "constructed"
            /\ UNCHANGED <<p_map, p_next>>
       ELSE LET o == p_overrides[p_next + 1]
                key == override_key(o)
            IN /\ p_map' = IF key \notin DOMAIN p_map
                           THEN DictSet(p_map, key, new_runtime_dep(o))
                           ELSE DictSet(p_map, key, replace(p_map[key], o))
               /\ p_next' = p_next + 1
               /\ UNCHANGED p_pc
    /\ UNCHANGED <<p_deps, p_overrides, p_error, notDepVars>>

DepsNext ==
    \/ AddDependency
    \/ ApplyOverride

SpecDeps == DepsInit /\ [][DepsNext]_vars

\* ------------------------------------------------------------- SpecDotnet
\* One call of PlatformUtils.get_dotnet_version. A line of the output of
\* `dotnet --list-runtimes` is the record of its first two words; a version
\* is the sequence of the characters of its major number.
RuntimeNames == {"Microsoft.NETCore.App", "Microsoft.AspNetCore.App"}

RuntimeVersions == {<<"6">>, <<"8">>, <<"9">>, <<"1", "0">>}

RuntimeLines == [name : RuntimeNames, version : RuntimeVersions]

RuntimeListings == UNION {[1..n -> RuntimeLines] : n \in 0..MaxRuntimes}

\* str.startswith of a one-character prefix
startswith(s, prefix) == s # <<>> /\ Head(s) = prefix

RECURSIVE available_versions(_)
\* the loop over the lines of the output: line.split(" ")[1] of every line
\* that starts with Microsoft.NETCore.App
available_versions(lines) ==
    IF lines = <<>> THEN <<>>
    ELSE (IF Head(lines).name = "Microsoft.NETCore.App" THEN <<Head(lines).version>> ELSE <<>>)
         \o available_versions(Tail(lines))

RECURSIVE select_version(_)
\* the loop over available_version_cmd_output: the DotnetVersion of the first
\* entry that starts with 9, 8, 7, 6 or 4, "" if there is none
select_version(available) ==
    IF available = <<>> THEN ""
    ELSE IF startswith(Head(available), "9") THEN "9"
    ELSE IF startswith(Head(available), "8") THEN "8"
    ELSE IF startswith(Head(available), "7") THEN "7"
    ELSE IF startswith(Head(available), "6") THEN "6"
    ELSE IF startswith(Head(available), "4") THEN "4"
    ELSE select_version(Tail(available))

DotnetInit ==
    /\ OldIdle
    /\ EncodingIdle
    /\ DownloadIdle
    /\ DartIdle
    /\ DepsIdle
    /\ n_pc = "start"
    /\ n_dotnet \in BOOLEAN
    /\ n_mono \in BOOLEAN
    /\ n_lines \in IF n_dotnet THEN RuntimeListings ELSE {<<>>}
    /\ n_available = <<>>
    /\ n_result = ""
    /\ n_error = ""

\* subprocess.run(["dotnet", "--list-runtimes"], ..., check=True)
RunDotnet ==
    /\ n_pc = "start"
    /\ n_pc' = IF n_dotnet THEN "listed" ELSE "no_dotnet"
    /\ UNCHANGED <<n_dotnet, n_mono, n_lines, n_available, n_result, n_error, notNetVars>>

\* the versions of the Microsoft.NETCore.App lines are collected; without any
\* the call fails
CollectVersions ==
    /\ n_pc = "listed"
    /\ n_available' = available_versions(n_lines)
    /\ IF n_available' = <<>>
       THEN /\ n_error' = "dotnet not found on the system"
            /\ n_pc' = "raised"
       ELSE /\ n_pc' = "collected"
            /\ UNCHANGED n_error
    /\ UNCHANGED <<n_dotnet, n_mono, n_lines, n_result, notNetVars>>

\* the loop that returns a supported version, or the exception after it
SelectVersion ==
    /\ n_pc = "collected"
    /\ n_result' = select_version(n_available)
    /\ IF n_result' = ""
       THEN /\ n_error' = "No supported dotnet version found"
            /\ n_pc' = "raised"
       ELSE /\ n_pc' = "returned"
            /\ UNCHANGED n_error
    /\ UNCHANGED <<n_dotnet, n_mono, n_lines, n_available, notNetVars>>

\* without dotnet: subprocess.run(["mono", "--version"], ..., check=True)
RunMono ==
    /\ n_pc = "no_dotnet"
    /\ IF n_mono
       THEN /\ n_result' = "mono"
            /\ n_pc' = "returned"
            /\ UNCHANGED n_error
       ELSE /\ n_error' = "dotnet or mono not found on the system"
            /\ n_pc' = "raised"
            /\ UNCHANGED n_result
    /\ UNCHANGED <<n_dotnet, n_mono, n_lines, n_available, notNetVars>>

DotnetNext ==
    \/ RunDotnet
    \/ CollectVersions
    \/ SelectVersion
    \/ RunMono

SpecDotnet == DotnetInit /\ [][DotnetNext]_vars

\* ------------------------------------------------------------- position helpers
\* number of lines of a text, as insert_text_at_position counts them
NumLines(text) == Count(text, LF) + 1

\* offset of the first character of an existing line (0 <= line < NumLines)
LineStart(text, line) ==
    IF line = 0 THEN 0
    ELSE CHOOSE i \in 1..Len(text) : text[i] = LF /\ Count(Prefix(text, i), LF) = line

\* number of characters of an existing line, its newline excluded
LineLen(text, line) ==
    (IF line + 1 < NumLines(text) THEN LineStart(text, line + 1) - 1 ELSE Len(text))
    - LineStart(text, line)

\* (line, col) is a position within text
ValidPosition(text, line, col) == line < NumLines(text) /\ col <= LineLen(text, line)

\* C5: for every text and every valid position (line, col) within it,
\* get_line_col_from_index(T, get_index_from_line_col(T, line, col)) = (line, col).
C5_RoundTrip ==
    (t_pc = "linecol" /\ ValidPosition(t_text, t_line, t_col))
        => (t_res = Ok(<<t_line, t_col>>))

\* a valid position behind a carriage return on a line that is not the first
C5_Witness ==
    /\ t_pc = "linecol"
    /\ ValidPosition(t_text, t_line, t_col)
    /\ t_line > 0 /\ t_col > 0
    /\ CR \in {t_text[i] : i \in 1..Len(t_text)}
    /\ t_res = Ok(<<t_line, t_col>>)

\* C4 as stated: for all texts T, positions (line, col) and strings S, whenever
\* insert_text_at_position(T, line, col, S) returns (T', l', c'),
\* delete_text_between_positions(T', line, col, l', c') returns (T, S).
C4_AnyPosition ==
    (t_pc = "deleted")
        => (t_del = Ok([new_text |-> t_text, deleted_text |-> t_ins]))

\* C4 amended: the same for every position (line, col) that is valid within T
\* (line is an existing line of T and col is at most the length of that line).
C4_ValidPosition ==
    (t_pc = "deleted" /\ ValidPosition(t_text, t_line, t_col))
        => (t_del = Ok([new_text |-> t_text, deleted_text |-> t_ins]))

\* a multi-line string inserted in the middle of a line that is not the first
C4_Witness ==
    /\ t_pc = "deleted"
    /\ ValidPosition(t_text, t_line, t_col)
    /\ t_line > 0 /\ t_col > 0
    /\ Count(t_ins, LF) > 0 /\ Len(t_ins) > 1
    /\ t_del = Ok([new_text |-> t_text, deleted_text |-> t_ins])

\* ------------------------------------------------------------- claim helpers
\* offset of a position that is valid within text
OffsetOf(text, pos) == LineStart(text, pos[1]) + pos[2]

\* text without its longest prefix and its longest suffix of characters in chars
Trimmed(text, chars) ==
    LET keep == {i \in 1..Len(text) : text[i] \notin chars}
    IN IF keep = {} THEN <<>>
       ELSE SubSeq(text, CHOOSE i \in keep : \A j \in keep : i <= j,
                         CHOOSE i \in keep : \A j \in keep : j <= i)

\* text without its longest suffix of characters in chars
RightTrimmed(text, chars) ==
    LET keep == {i \in 1..Len(text) : text[i] \notin chars}
    IN IF keep = {} THEN <<>>
       ELSE SubSeq(text, 1, CHOOSE i \in keep : \A j \in keep : j <= i)

\* number of newlines among the line breaks text starts with / ends with
LeadingNewlines(text) ==
    Count(SubSeq(text, 1, Len(text) - Len(lstrip(text, LineBreaks))), LF)
TrailingNewlines(text) ==
    Count(SubSeq(text, Len(RightTrimmed(text, LineBreaks)) + 1, Len(text)), LF)

HasContent(text) == \E i \in 1..Len(text) : text[i] \notin LineBreaks

\* the call entered the edited-file scope
Entered == \E i \in 1..Len(steps) : steps[i] = "open"

\* the call is past the preparation of the text to insert
Prepared == pc \in {"open", "edit", "save", "close", "done"}

\* C1: when a buffer mutation raises inside an edit call, the partial buffer is
\* discarded and not flushed: the file is not written and keeps its content.
C1_FailureKeepsFile ==
    (pc = "raised") => (disk = orig /\ writes = 0 /\ ~edited_file.open)

\* replace_body failed on its insert step after the delete step had changed the buffer
C1_Witness ==
    /\ pc = "raised"
    /\ op = "replace_body"
    /\ steps = <<"resolve", "compute", "open", "mutate">>
    /\ dropped # orig
    /\ disk = orig

\* C2 as stated: on every exit path of the edited-file scope, success and failure
\* alike, the buffer is released and flushed (written to disk).
C2_FlushOnEveryExit ==
    (Entered /\ pc \in {"done", "raised"}) => (~edited_file.open /\ writes = 1)

\* C2 amended: the buffer is released on every exit path of the scope; it is
\* flushed (the file then holds the buffer's content) exactly on the successful
\* exit, and not at all when the scope is left by an error.
C2_ReleaseOnEveryExit ==
    /\ (Entered /\ pc \in {"done", "raised"}) => ~edited_file.open
    /\ (Entered /\ pc = "done") => writes = 1
    /\ (pc = "close") => (writes = 1 /\ disk = edited_file.contents)
    /\ (Entered /\ pc = "raised") => writes = 0

\* the scope was left by an error of the buffer operation of delete_symbol
C2_Witness ==
    /\ pc = "raised"
    /\ Entered
    /\ op = "delete_symbol"
    /\ error = "EditError"
    /\ ~edited_file.open
    /\ writes = 0

StatedOrder(o) ==
    IF o = "replace_body"
    THEN <<"resolve", "open", "compute", "mutate", "mutate", "flush", "close">>
    ELSE <<"resolve", "open", "compute", "mutate", "flush", "close">>

CodeOrder(o) ==
    IF o = "replace_body"
    THEN <<"resolve", "compute", "open", "mutate", "mutate", "flush", "close">>
    ELSE <<"resolve", "compute", "open", "mutate", "flush", "close">>

FileLines(text) ==
    LET n == IF text = <<>> \/ text[Len(text)] = LF
             THEN Count(text, LF) ELSE Count(text, LF) + 1
    IN [k \in 1..n |-> SubSeq(text, LineStart(text, k - 1) + 1,
                              LineStart(text, k - 1) + LineLen(text, k - 1))]

\* the lines of text outside [first, last] (0-based, inclusive), in order
LinesOutside(text, first, last) ==
    LET lines == FileLines(text)
        gone == last - first + 1
    IN [k \in 1..(Len(lines) - gone) |-> IF k <= first THEN lines[k] ELSE lines[k + gone]]

\* C6: delete_lines(path, start_line, end_line) is inclusive of end_line: for an
\* N-line file and 0 <= start_line <= end_line < N it leaves exactly the
\* N - (end_line - start_line + 1) lines outside [start_line, end_line], in order.
C6_DeleteLinesInclusive ==
    (/\ op = "delete_lines"
     /\ pc \in {"done", "raised"}
     /\ error # "EditError"
     /\ start_line <= end_line
     /\ end_line < Len(FileLines(orig)))
        => (pc = "done" /\ FileLines(disk) = LinesOutside(orig, start_line, end_line))

\* C7: replace_body leaves T[0:start] + strip(newBody) + T[end:] in the file, for
\* every new body, [start, end) being the body range of the symbol.
C7_ReplaceBody ==
    (op = "replace_body" /\ pc = "done")
        => (disk = Prefix(orig, OffsetOf(orig, symbol.start))
                   \o Trimmed(body0, Whitespace)
                   \o Suffix(orig, OffsetOf(orig, symbol.end)))

\* a body with whitespace around its content replaced a longer range that does
\* not start at the beginning of the file
C7_Witness ==
    /\ op = "replace_body"
    /\ pc = "done"
    /\ Trimmed(body0, Whitespace) # <<>>
    /\ Len(body0) > Len(Trimmed(body0, Whitespace)) + 1
    /\ OffsetOf(orig, symbol.start) > 0
    /\ disk # orig
    /\ disk = Prefix(orig, OffsetOf(orig, symbol.start))
              \o Trimmed(body0, Whitespace)
              \o Suffix(orig, OffsetOf(orig, symbol.end))

\* the policy minimum of blank lines of the resolved symbol
PolicyMinimum == IF symbol.separated THEN 1 ELSE 0

\* the text of orig with `text` inserted at column 0 of `line`; when `line` is one
\* past the last line, behind the end of the file and a newline separator
InsertedAtLine(text, line) ==
    IF line < NumLines(orig)
    THEN Prefix(orig, LineStart(orig, line)) \o text \o Suffix(orig, LineStart(orig, line))
    ELSE orig \o <<LF>> \o text

\* the text C8 describes: max(k, m) newlines, the caller's body without the line
\* breaks around it, one newline
AfterText == Repeat(LF, Max(LeadingNewlines(body0), PolicyMinimum))
             \o Trimmed(body0, LineBreaks) \o <<LF>>

\* C8: insert_after_symbol inserts, at column 0 of the line following the
\* symbol's body end, a text that starts with exactly max(k, m) newlines,
\* continues with the caller's body without its leading line breaks and ends with
\* exactly one trailing newline, for every caller body.  (For a body without
\* content the max(k, m) >= 1 newlines may themselves be the whole text.)
C8_InsertAfterText ==
    (op = "insert_after_symbol" /\ Prepared)
        => /\ \/ body = AfterText
              \/ /\ ~HasContent(body0)
                 /\ Max(LeadingNewlines(body0), PolicyMinimum) >= 1
                 /\ body = Repeat(LF, Max(LeadingNewlines(body0), PolicyMinimum))
           /\ (pc = "done") => (disk = InsertedAtLine(body, symbol.end[1] + 1))

\* C8 for the bodies that have content (a character other than a line break)
C8_InsertAfterContent ==
    (op = "insert_after_symbol" /\ Prepared /\ HasContent(body0))
        => /\ body = AfterText
           /\ (pc = "done") => (disk = InsertedAtLine(body, symbol.end[1] + 1))

\* the number of trailing blank lines of the caller's body
TrailingBlankLines ==
    IF TrailingNewlines(body0) = 0 THEN 0 ELSE TrailingNewlines(body0) - 1

C9_NoNewlineWitness ==
    /\ op = "insert_before_symbol"
    /\ pc = "done"
    /\ ~symbol.separated
    /\ HasContent(body0)
    /\ TrailingNewlines(body0) = 0
    /\ body = RightTrimmed(body0, Whitespace) \o <<LF>>

\* the line of the file on which the inserted content starts: the number of
\* newlines before the first character that is not a line break, looking from
\* the end of the line of the symbol's body end
DeclarationLine ==
    LET from == IF symbol.end[1] + 1 < NumLines(orig)
                THEN LineStart(orig, symbol.end[1] + 1) ELSE Len(orig)
        first == CHOOSE i \in (from + 1)..Len(disk) :
                    /\ disk[i] \notin LineBreaks
                    /\ \A j \in (from + 1)..(i - 1) : disk[j] \in LineBreaks
    IN Count(Prefix(disk, first - 1), LF)

C16_AppendOrOutOfRange ==
    (t_pc = "inserted" /\ t_line >= NumLines(t_text))
        => IF t_line = NumLines(t_text) /\ t_col = 0
           THEN t_res.err = "" /\ t_res.val.new_text = t_text \o <<LF>> \o t_ins
           ELSE t_res = Raise("InvalidTextLocationError")

\* a non-empty string appended to a non-empty text of more than one line
C16_Witness ==
    /\ t_pc = "inserted"
    /\ t_line = NumLines(t_text) /\ t_col = 0
    /\ t_line > 1 /\ t_ins # <<>>
    /\ t_res.err = ""
    /\ t_res.val.new_text = t_text \o <<LF>> \o t_ins

\* C17: get_index_from_line_col(T, line, col) raises InvalidTextLocationError
\* exactly when T contains fewer than `line` newlines; otherwise it returns the
\* offset of the start of that line plus col, whatever the length of the line.
C17_OutOfRangeIffFewerNewlines ==
    (t_pc = "index")
        => IF Count(t_text, LF) < t_line
           THEN t_index = Raise("InvalidTextLocationError")
           ELSE t_index = Ok(LineStart(t_text, t_line) + t_col)

\* a column past the end of a line that is not the first: the offset returned
\* lies past the end of the text
C17_Witness ==
    /\ t_pc = "index"
    /\ t_line > 0
    /\ t_line < NumLines(t_text)
    /\ t_col > LineLen(t_text, t_line)
    /\ t_index.err = ""
    /\ t_index.val > Len(t_text)

\* offset of the first character of the line that offset index lies on
LineStartBefore(text, index) ==
    LET nl == {i \in 1..index : text[i] = LF}
    IN IF nl = {} THEN 0 ELSE CHOOSE i \in nl : \A j \in nl : j <= i

\* C18 as stated: for an offset within T, get_line_col_from_index(T, offset)
\* returns as line the number of newlines before the offset, and as column the
\* number of characters since the start of that line, carriage returns not
\* counted.
C18_CrNotAColumn ==
    (t_pc = "linecol" /\ t_res.err = "")
        => LET index == t_index.val
               ls == LineStartBefore(t_text, index)
           IN t_res.val = <<Count(Prefix(t_text, index), LF),
                            (index - ls) - Count(Slice(t_text, ls, index), CR)>>

\* C18 amended: the line is the number of newlines before the offset (a carriage
\* return does not advance it), and the column is the number of characters since
\* the start of that line, carriage returns counted like any other character.
C18_CrIsAColumn ==
    (t_pc = "linecol" /\ t_res.err = "")
        => LET index == t_index.val
               ls == LineStartBefore(t_text, index)
           IN t_res.val = <<Count(Prefix(t_text, index), LF), index - ls>>

\* an offset behind a carriage return on a line that is not the first
C18_Witness ==
    /\ t_pc = "linecol"
    /\ t_res.err = ""
    /\ Count(Prefix(t_text, t_index.val), LF) > 0
    /\ Count(Slice(t_text, LineStartBefore(t_text, t_index.val), t_index.val), CR) > 0
    /\ t_res.val[2] = t_index.val - LineStartBefore(t_text, t_index.val)

\* ------------------------------------------------------------- C19
\* C19: once _find_unique_symbol has run, the call holds a symbol only if exactly
\* one symbol matched; with zero matches it has raised NotFound, with more than
\* one it has raised AmbiguousSymbol, and in both cases no symbol was taken and
\* no later step of the edit ran.
C19_UniqueOrFails ==
    (op \in SymbolOps /\ pc \notin {"idle", "find"})
        => /\ (matches = 0) => (pc = "raised" /\ error = "NotFound")
           /\ (matches > 1) => (pc = "raised" /\ error = "AmbiguousSymbol")
           /\ (matches # 1) => (symbol = NoSymbol /\ steps = <<>> /\ disk = orig)
           /\ (matches = 1) => (steps # <<>> /\ steps[1] = "resolve"
                                 /\ error \notin {"NotFound", "AmbiguousSymbol"})

\* two symbols match the name path: the call has raised AmbiguousSymbol
C19_Witness ==
    /\ op \in SymbolOps
    /\ matches = 2
    /\ pc = "raised"
    /\ error = "AmbiguousSymbol"
    /\ symbol = NoSymbol

\* ------------------------------------------------------------- C11 .. C15
\* number of events of a kind among the first i - 1 events of the call
CountBefore(ev, i) == Cardinality({j \in 1..(i - 1) : r_log[j].ev = ev})

\* number of times the call wrote file f
WritesOf(f) == Cardinality({i \in DOMAIN r_log : r_log[i] = Event("write", f)})

\* the entries of the workspace edit the backend answered with
Entries == r_result.changes

\* the files the workspace edit names
NamedFiles == {uri_to_path(Entries[i].uri) : i \in DOMAIN Entries}

\* the response holds no text edit: it is None, or none of its entries has one
NoTextEdits == r_result.none \/ \A i \in DOMAIN Entries : Entries[i].edits = <<>>

\* C11: the rename request is sent only while the target file is open: the
\* event before the request is the opening of the target file, the file is still
\* open when the request has returned, and once the `with` block is left, by a
\* return or by an exception of the request, the next event is its closing and
\* the file is no longer open.
C11_RequestWhileOpen ==
    \A i \in DOMAIN r_log :
        (r_log[i].ev = "request")
            => /\ i > 1
               /\ r_log[i - 1] = Event("open", r_file)
               /\ IF r_pc = "close"
                  THEN r_file \in r_open
                  ELSE Len(r_log) > i /\ r_log[i + 1] = Event("close", r_file)
               /\ (r_pc = "result" \/ r_error \in {"RequestError", "NotSupported"})
                      => (r_file \notin r_open)

\* the request failed: the file was opened before it and closed after it
C11_Witness ==
    /\ r_pc = "raised"
    /\ r_error = "RequestError"
    /\ r_log = <<Event("open", r_file), Event("request", r_file), Event("close", r_file)>>
    /\ r_open = {}

\* C12 as stated: no file is written before the edits of all entries of the
\* workspace edit have been applied to their buffers.
C12_AllEditsBeforeAnyFlush ==
    \A i \in DOMAIN r_log :
        (r_log[i].ev = "write") => (CountBefore("apply", i) = Len(Entries))

\* C12 amended: the entries are handled one after the other in the order of the
\* workspace edit, each one completely: the k-th write is that of the k-th
\* entry's file, it directly follows the application of that entry's edits, and
\* at that moment exactly the buffers of entries 1..k have been opened and
\* edited; after each entry as many files are written as entries were handled.
C12_EntryByEntry ==
    /\ \A i \in DOMAIN r_log :
          (r_log[i].ev = "write")
              => LET k == CountBefore("write", i) + 1
                 IN /\ k <= Len(Entries)
                    /\ r_log[i].file = uri_to_path(Entries[k].uri)
                    /\ r_log[i - 1] = Event("apply", r_log[i].file)
                    /\ CountBefore("apply", i) = k
                    /\ CountBefore("open", i) = k + 1
    /\ (r_pc \in {"loop", "done"})
          => (Cardinality({i \in DOMAIN r_log : r_log[i].ev = "write"}) = Len(r_modified))

\* the edits of a later entry failed after the file of an earlier entry was written
C12_Witness ==
    /\ r_pc = "raised"
    /\ r_error = "EditError"
    /\ Len(Entries) > 1
    /\ \E f \in FileNames : WritesOf(f) = 1 /\ r_disk[f] # <<>>
    /\ CountBefore("apply", Len(r_log) + 1) < Len(Entries)

\* C13: whenever the response of the backend holds no text edit (it is None or
\* a workspace edit without text edits), the call ends with the error
\* NotSupported, writes no file and returns no status message.
C13_NoEditsIsAnError ==
    (r_pc \in {"done", "raised"} /\ r_result.received /\ NoTextEdits)
        => /\ r_pc = "raised"
           /\ r_error = "NotSupported"
           /\ \A f \in FileNames : WritesOf(f) = 0
           /\ r_msg = <<>>

\* C14: if the symbol found has no valid position in the file, the call raises
\* InvalidTarget at once: no file was opened, no request was sent, no file was
\* written.
C14_NoPositionFailsFirst ==
    (r_symbol.resolved /\ ~r_symbol.has_position /\ r_pc # "check")
        => /\ r_pc = "raised"
           /\ r_error = "InvalidTarget"
           /\ r_log = <<>>
           /\ r_open = {}
           /\ r_result = NoResponse
           /\ r_disk = [f \in FileNames |-> <<>>]

\* a symbol without position was found and the call has raised
C14_Witness ==
    /\ r_symbol.resolved
    /\ ~r_symbol.has_position
    /\ r_pc = "raised"
    /\ r_error = "InvalidTarget"
    /\ r_log = <<>>

\* C15 as stated: a successful call wrote each file the workspace edit names
\* once and no other file, and the files its result names are exactly those.
C15_ResultNamesFiles ==
    (r_pc = "done")
        => /\ \A f \in FileNames : WritesOf(f) = (IF f \in NamedFiles THEN 1 ELSE 0)
           /\ {f \in FileNames : \E i \in DOMAIN r_msg : r_msg[i] = f} = NamedFiles

\* C15 amended: a successful call wrote each file once per entry of the
\* workspace edit that names it and no other file, and its result is the
\* message "Successfully renamed ... in N file(s)", N the number of entries;
\* the message names no file.
C15_ResultCountsEntries ==
    (r_pc = "done")
        => /\ \A f \in FileNames :
                 WritesOf(f) = Cardinality({i \in DOMAIN Entries : uri_to_path(Entries[i].uri) = f})
           /\ Len(r_msg) = 7
           /\ r_msg[1] = "Successfully renamed"
           /\ r_msg[6] = ToString(Len(Entries))
           /\ \A i \in DOMAIN r_msg : r_msg[i] \notin FileNames

\* three entries naming three files, each with an edit: each file written once
C15_Witness ==
    /\ r_pc = "done"
    /\ Len(Entries) = 3
    /\ Cardinality(NamedFiles) = 3
    /\ \A f \in NamedFiles : WritesOf(f) = 1 /\ r_disk[f] = <<"edit">>
    /\ r_msg[6] = "3"

\* ------------------------------------------------------------- C20
\* a kinds argument holds a value outside 1..26
HasInvalidKind(kinds) == \E i \in DOMAIN kinds : kinds[i] < 1 \/ kinds[i] > 26

\* C20: a call of either tool whose include_kinds or exclude_kinds holds a value
\* outside 1..26 ends with the error InvalidArgument and no symbol query has
\* reached the backend; every other call sends exactly one query, in which an
\* empty kinds list is passed as no filter (None) and a non-empty one as given.
C20_InvalidKindsRejected ==
    (k_pc \in {"done", "raised"})
        => IF HasInvalidKind(k_include) \/ HasInvalidKind(k_exclude)
           THEN k_pc = "raised" /\ k_error = "InvalidArgument" /\ k_queries = <<>>
           ELSE /\ k_pc = "done"
                /\ Len(k_queries) = 1
                /\ k_queries[1].include_kinds =
                      [none |-> k_include = <<>>, kinds |-> k_include]
                /\ k_queries[1].exclude_kinds =
                      [none |-> k_exclude = <<>>, kinds |-> k_exclude]

\* an exclude_kinds value just below the range, behind a valid one, with valid
\* include_kinds: the call has raised and no query was sent
C20_Witness ==
    /\ k_pc = "raised"
    /\ k_include # <<>>
    /\ ~HasInvalidKind(k_include)
    /\ Len(k_exclude) = 2 /\ k_exclude[1] = 26 /\ k_exclude[2] = 0
    /\ k_error = "InvalidArgument"
    /\ k_queries = <<>>

\* empty include_kinds and exclude_kinds: the query is sent without filter
C20_EmptyWitness ==
    /\ k_pc = "done"
    /\ k_include = <<>> /\ k_exclude = <<>>
    /\ k_queries[1].include_kinds = NoKinds
    /\ k_queries[1].exclude_kinds = NoKinds

\* ------------------------------------------------------------- C22
\* C22: when the symbol of replace_body, insert_after_symbol, insert_before_symbol
\* or delete_symbol cannot be resolved (no match, several matches, or a symbol
\* without body position), the call has raised without entering the edited-file
\* scope: no buffer was opened or released, nothing was mutated, the file was
\* not written and keeps its content.
C22_ResolutionFailsBeforeOpen ==
    (op \in SymbolOps /\ pc \notin {"idle", "find", "prepare"}
        /\ (matches # 1 \/ ~symbol.has_body))
        => /\ pc = "raised"
           /\ error \in {"NotFound", "AmbiguousSymbol", "InvalidTarget"}
           /\ \A i \in 1..Len(steps) : steps[i] = "resolve"
           /\ ~edited_file.open
           /\ dropped = <<>>
           /\ writes = 0
           /\ disk = orig

\* insert_after_symbol on a symbol without body position, in a non-empty file
C22_Witness ==
    /\ op = "insert_after_symbol"
    /\ matches = 1
    /\ ~symbol.has_body
    /\ disk # <<>>
    /\ pc = "raised"
    /\ error = "InvalidTarget"
    /\ steps = <<"resolve">>

\* ------------------------------------------------------------- C23 .. C24
\* the position of an offset within text
PositionAt(text, offset) ==
    <<Count(Prefix(text, offset), LF), offset - LineStartBefore(text, offset)>>

\* (line, col) is the position one line past the end of text, where
\* insert_text_at_position appends
AppendPosition(text, line, col) == line = NumLines(text) /\ col = 0

\* C23: for an insertion at a valid position of T, or at the append position one
\* line past its end, the returned (new_l, new_c) is the position in the new
\* text directly after the last inserted character.
C23_ReturnsCursorPosition ==
    (t_pc = "inserted" /\ t_res.err = ""
        /\ (ValidPosition(t_text, t_line, t_col) \/ AppendPosition(t_text, t_line, t_col)))
        => LET index == IF ValidPosition(t_text, t_line, t_col)
                        THEN OffsetOf(t_text, <<t_line, t_col>>)
                        ELSE Len(t_text)
               inserted == Len(t_res.val.new_text) - Len(t_text)
           IN <<t_res.val.new_l, t_res.val.new_c>>
                  = PositionAt(t_res.val.new_text, index + inserted)

\* C24: whenever delete_text_between_positions(T, start, end) returns, for two
\* positions in either order, the lengths of the new text and of the deleted
\* text add up to the length of T.
C24_DeletionNeverAddsText ==
    (t_pc = "deleted_between" /\ t_del.err = "")
        => (Len(t_del.val.new_text) + Len(t_del.val.deleted_text) = Len(t_text))

\* ------------------------------------------------------------- C25
\* the body of the resolved symbol ends on the last line of the file (which then
\* has no trailing newline: a line that holds a symbol's end is not empty)
EndsOnLastLine == symbol.has_body /\ symbol.end[1] + 1 = NumLines(orig)

\* C25: insert_after_symbol on a symbol whose body ends on the last line of a
\* file without trailing newline does not fail on its insertion position, and
\* when it is done the file is the old content, unchanged, followed by a newline
\* and the inserted text: the inserted text starts on a new line.
C25_InsertAfterLastLine ==
    (op = "insert_after_symbol" /\ EndsOnLastLine)
        => /\ orig # <<>> /\ orig[Len(orig)] # LF
           /\ error # "InvalidTextLocationError"
           /\ (pc = "done")
                 => /\ disk = orig \o <<LF>> \o body
                    /\ writes = 1

\* content inserted behind a symbol that ends the file's last line
C25_Witness ==
    /\ op = "insert_after_symbol"
    /\ pc = "done"
    /\ EndsOnLastLine
    /\ HasContent(body0)
    /\ ~symbol.separated
    /\ disk = orig \o <<LF>> \o Trimmed(body0, LineBreaks) \o <<LF>>

\* ------------------------------------------------------------- C26
\* C26: when an edit call of the JetBrains editor has saved the file, the
\* encoding it wrote the file with is the encoding it read the file with,
\* and that is the encoding of the project's configuration, whether the
\* editor was built with an agent with an active project, with an agent
\* without one, or without an agent.
C26_WriteEncodingIsReadEncoding ==
    e_pc = "done" => e_io.write = e_io.read /\ e_io.read = e_config

\* ------------------------------------------------------------- C21, C28
\* position of the first step of a kind in the log, 0 if there is none
FirstOf(log, kinds) ==
    IF \E i \in 1..Len(log) : log[i] \in kinds
    THEN CHOOSE i \in 1..Len(log) :
            /\ log[i] \in kinds
            /\ \A j \in 1..(i - 1) : log[j] \notin kinds
    ELSE 0

\* the steps that put something at or under target_path
PlacingSteps == {"makedirs", "gunzip", "extract", "move"}

\* C21: when an expected hash is available, given or fetched, the digest of
\* the download is verified before anything is extracted or moved; and when
\* the digest does not match, the call fails, the target holds nothing of
\* the download, and the temporary download file is gone.
C21_VerifiedBeforeExtraction ==
    /\ (Truthy(d_expected) /\ FirstOf(d_log, PlacingSteps) # 0) =>
          /\ FirstOf(d_log, {"verify"}) # 0
          /\ FirstOf(d_log, {"verify"}) < FirstOf(d_log, PlacingSteps)
          /\ _verify_hash_auto(d_file, d_expected) = ""
    /\ (Truthy(d_expected) /\ d_pc \in {"returned", "raised"}
          /\ _verify_hash_auto(d_file, d_expected) # "") =>
          /\ d_pc = "raised"
          /\ d_target = NoTarget
          /\ d_tmp = {}

\* a given hash matched and the archive was extracted
C21_Witness ==
    /\ d_pc = "returned"
    /\ Truthy(d_expected)
    /\ d_target.paths # {}

\* a fetched hash did not match and the call has failed
C21_MismatchWitness ==
    /\ d_pc = "raised"
    /\ d_checksum.given
    /\ d_expected = d_checksum.hash
    /\ d_error = "mismatch"

ReachedExtraction == FirstOf(d_log, {"makedirs"}) # 0

HasUnsafeMember == \E i \in 1..Len(d_members) : ~IsSafe(d_members[i])

\* C28: when a member of a tar or zip archive has a path outside the target
\* directory, a call that got as far as extraction fails and has written no
\* member of the archive, neither outside the target nor inside it.
C28_UnsafeArchiveWritesNothing ==
    (d_pc \in {"returned", "raised"} /\ HasUnsafeMember /\ ReachedExtraction) =>
        /\ d_pc = "raised"
        /\ d_target.paths = {}

\* ------------------------------------------------------------- C27
\* whether the first step of kind a is in the log and comes before every step
\* of kind b
Precedes(log, a, b) ==
    /\ FirstOf(log, {a}) # 0
    /\ FirstOf(log, {b}) # 0 => FirstOf(log, {a}) < FirstOf(log, {b})

\* C27: in a Dart session start, every handler for the backend's requests and
\* notifications is registered before the backend process is started, so
\* whatever the backend sends finds its handler; initialize is sent after
\* the start; initialized is sent only after the initialize response has
\* arrived, at most once, and exactly once when the start completes.
C27_StartOrder ==
    /\ FirstOf(s_log, {"start"}) # 0 =>
          \A method \in ServerMethods : Precedes(s_log, method, "start")
    /\ \A i \in 1..Len(s_received) : s_received[i].handled
    /\ FirstOf(s_log, {"initialize"}) # 0 => Precedes(s_log, "start", "initialize")
    /\ FirstOf(s_log, {"initialized"}) # 0 =>
          /\ Precedes(s_log, "initialize", "response")
          /\ Precedes(s_log, "response", "initialized")
    /\ Count(s_log, "initialized") <= 1
    /\ s_pc = "ready" => Count(s_log, "initialized") = 1

\* a completed start during which the backend has sent something
C27_Witness ==
    /\ s_pc = "ready"
    /\ s_received # <<>>

\* ------------------------------------------------------------- C29
\* two of the base dependencies have the same id and platform_id
HasDuplicateDeps ==
    \E i, j \in 1..Len(p_deps) : i # j /\ dep_key(p_deps[i]) = dep_key(p_deps[j])

\* C29: a RuntimeDependencyCollection whose base dependencies have two with
\* the same (id, platform_id) is rejected with ValueError, and nothing else
\* is; in the collection, during and after construction and overrides, the
\* id and platform_id of every stored dependency are its key, so no two
\* stored dependencies have the same (id, platform_id).
C29_KeysIdentifyDependencies ==
    /\ p_pc \in {"overrides", "constructed"} => ~HasDuplicateDeps
    /\ p_pc = "raised" => p_error = "ValueError" /\ HasDuplicateDeps
    /\ \A key \in DOMAIN p_map : dep_key(p_map[key]) = key
    /\ \A k1, k2 \in DOMAIN p_map : dep_key(p_map[k1]) = dep_key(p_map[k2]) => k1 = k2

\* a collection of two dependencies, one of them overridden without naming
\* its platform_id
C29_Witness ==
    /\ p_pc = "constructed"
    /\ Cardinality(DOMAIN p_map) >= 2
    /\ \E i \in 1..Len(p_overrides) :
          /\ ~p_overrides[i].has_platform_id
          /\ p_map[override_key(p_overrides[i])].url = "u2"

\* a rejected collection
C29_RejectedWitness ==
    /\ p_pc = "raised"
    /\ HasDuplicateDeps
\* ------------------------------------------------------------- C30
\* the supported versions, lowest first
SupportedVersions == <<"4", "6", "7", "8", "9">>

Rank(version) == FirstOf(SupportedVersions, {version})

\* the supported versions among the installed Microsoft.NETCore.App runtimes
InstalledSupported ==
    {v \in {SupportedVersions[i] : i \in 1..Len(SupportedVersions)} :
        \E i \in 1..Len(n_lines) :
            /\ n_lines[i].name = "Microsoft.NETCore.App"
            /\ startswith(n_lines[i].version, v)}

\* C30: the version get_dotnet_version returns for a system with dotnet is
\* the highest supported version among the installed Microsoft.NETCore.App
\* runtimes, in whatever order the runtimes are listed.
C30_ReturnsHighestSupported ==
    (n_pc = "returned" /\ n_dotnet) =>
        /\ n_result \in InstalledSupported
        /\ \A v \in InstalledSupported : Rank(v) <= Rank(n_result)

====
